---- MODULE Spec2Model ----
(***************************************************************************)
(* A model of the toolpath visualizer of ocp-freecad-cam                   *)
(* (src/src/ocp_freecad_cam/visualizer.py).                                *)
(*                                                                         *)
(* generate_visual_commands walks the job's command list and appends       *)
(* VisualCommand objects to visual_commands; visual_commands_to_ais and     *)
(* visual_commands_to_edges turn consecutive pairs of them into shapes;    *)
(* visualize_fc_job picks one of the two for the hosting viewer.           *)
(*                                                                         *)
(* Coordinates are integers, whole multiples of 1/Unit of the length unit  *)
(* (whole units in every job but "fine steps").  Geometry objects of the OCP kernel are       *)
(* records that keep the arguments they were constructed from; a radius is *)
(* kept as its square and a pitch as its double so that both stay          *)
(* integers.  The inverse transformation of the job is not modelled: it is *)
(* applied to a finished group or compound and changes no decision.        *)
(***************************************************************************)
EXTENDS Integers, Sequences, FiniteSets, TLC

\* Which command list the job holds.
VARIABLE job


\* A key that is not in a Python dict (params starts without "z").
Absent == 1000
\* Python's None (canned_z = None, the defaults i=None, j=None, k=None).
NoneV == 1001

Axes == {"x", "y", "z"}
Keys == {"x", "y", "z", "i", "j", "k", "r"}

IsNum(v) == v # Absent /\ v # NoneV

(***************************************************************************)
(* Commands of the job: command.Name and command.Parameters, the keys      *)
(* already lower-cased as line 341 does.                                   *)
(***************************************************************************)
NoParams == [a \in Keys |-> Absent]
Prm(x, y, z, i, j, k, r) == [x |-> x, y |-> y, z |-> z, i |-> i, j |-> j, k |-> k, r |-> r]
Cmd(name, p) == [Name |-> name, Parameters |-> p]
XYZ(x, y, z) == Prm(x, y, z, Absent, Absent, Absent, Absent)

(***************************************************************************)
(* The VisualCommand classes.                                              *)
(***************************************************************************)
ArcClasses == {"CWArcVisualCommand", "CCWArcVisualCommand"}
LinearClasses == {"LinearVisualCommand", "RapidVisualCommand"}

\* VisualCommand.__init__ / ArcVisualCommand.__init__: an arc keeps arc_plane
\* and i, j, k (None when not given); a linear or rapid command keeps x, y, z only.
NewVisualCommand(cls, p) ==
    IF cls \in ArcClasses
    THEN [cls |-> cls, x |-> p.x, y |-> p.y, z |-> p.z,
          i |-> IF p.i = Absent THEN NoneV ELSE p.i,
          j |-> IF p.j = Absent THEN NoneV ELSE p.j,
          k |-> IF p.k = Absent THEN NoneV ELSE p.k,
          arc_plane |-> p.arc_plane]
    ELSE [cls |-> cls, x |-> p.x, y |-> p.y, z |-> p.z,
          i |-> Absent, j |-> Absent, k |-> Absent, arc_plane |-> "none"]

\* add_command: cls(**params) raises TypeError when x, y or z is missing; the
\* error is caught ("Bonk") and nothing is appended.
add_command(visual_commands, cls, p) ==
    IF p.x = Absent \/ p.y = Absent \/ p.z = Absent
    THEN visual_commands
    ELSE Append(visual_commands, NewVisualCommand(cls, p))

(***************************************************************************)
(* The tracker: the locals of generate_visual_commands.                    *)
(***************************************************************************)
\* Lines 324-330.
InitialParams ==
    [x |-> 0, y |-> 0, z |-> Absent, i |-> Absent, j |-> Absent, k |-> Absent,
     r |-> Absent, arc_plane |-> "XY"]

InitialTracker ==
    [params |-> InitialParams, relative |-> FALSE, canned |-> FALSE,
     canned_r |-> FALSE, canned_z |-> NoneV, visual_commands |-> <<>>,
     error |-> "none"]

\* A conversion that takes every command as absolute.
ToAbsolute_Never(relative, params, new_params) == new_params

\* Lines 342-350: in relative mode x, y, z of the command are added to the
\* carried values; i, j, k, r are left alone.
ToAbsolute(relative, params, new_params) ==
    IF relative
    THEN [a \in Keys |->
            IF a \in Axes /\ new_params[a] # Absent /\ IsNum(params[a])
            THEN new_params[a] + params[a]
            ELSE new_params[a]]
    ELSE new_params

\* Line 350 raises KeyError when params has no previous value of the axis and
\* TypeError when the previous value is None.
ToAbsoluteError(relative, params, new_params) ==
    IF ~relative THEN "none"
    ELSE IF \E a \in Axes : new_params[a] # Absent /\ params[a] = Absent
         THEN "KeyError"
    ELSE IF \E a \in Axes : new_params[a] # Absent /\ params[a] = NoneV
         THEN "TypeError"
    ELSE "none"

\* Line 351: {**params, **new_params}.
Combine(params, new_params) ==
    [x |-> IF new_params.x # Absent THEN new_params.x ELSE params.x,
     y |-> IF new_params.y # Absent THEN new_params.y ELSE params.y,
     z |-> IF new_params.z # Absent THEN new_params.z ELSE params.z,
     i |-> IF new_params.i # Absent THEN new_params.i ELSE params.i,
     j |-> IF new_params.j # Absent THEN new_params.j ELSE params.j,
     k |-> IF new_params.k # Absent THEN new_params.k ELSE params.k,
     r |-> IF new_params.r # Absent THEN new_params.r ELSE params.r,
     arc_plane |-> params.arc_plane]

\* Lines 353-368: the class a motion mnemonic is turned into.
MotionClass(name) ==
    CASE name = "G0" -> "RapidVisualCommand"
      [] name = "G1" -> "LinearVisualCommand"
      [] name = "G2" -> "CWArcVisualCommand"
      [] name = "G3" -> "CCWArcVisualCommand"

MotionNames == {"G0", "G1", "G2", "G3"}

\* A motion that forgets the parameters of a command it could not record.
Motion_ForgetsFailed(t, name, combined_params) ==
    IF add_command(t.visual_commands, MotionClass(name), combined_params) = t.visual_commands
    THEN t
    ELSE [t EXCEPT !.visual_commands = add_command(@, MotionClass(name), combined_params),
                   !.params = combined_params]

\* Lines 353-368.
Motion(t, name, combined_params) ==
    [t EXCEPT !.visual_commands = add_command(@, MotionClass(name), combined_params),
              !.params = combined_params]

\* A plane command that always selects XY.
ArcPlane_AlwaysXY(t, name) == [t EXCEPT !.params.arc_plane = "XY"]

\* Lines 369-374.
ArcPlane(t, name) ==
    [t EXCEPT !.params.arc_plane =
        CASE name = "G17" -> "XY" [] name = "G18" -> "XZ" [] name = "G19" -> "YZ"]

\* A retract that always goes back to the initial plane.
RetractZ_InitialPlane(canned_r, canned_z, combined_params) == canned_z

\* Lines 389-395: the z of the retract stroke.
RetractZ(canned_r, canned_z, combined_params) ==
    IF canned_r THEN combined_params.r ELSE canned_z

\* Lines 381-384: the return height kept in canned_z.
CaptureZ(t) ==
    IF ~t.canned /\ ~t.canned_r THEN t.params.z ELSE t.canned_z

\* Lines 375-398.
G81(t, combined_params) ==
    LET z1 == CaptureZ(t)
        down == add_command(t.visual_commands, "LinearVisualCommand", combined_params)
        up == [combined_params EXCEPT !.z = RetractZ(t.canned_r, z1, combined_params)]
    IN  IF ~t.canned /\ ~t.canned_r /\ t.params.z = Absent
        THEN [t EXCEPT !.error = "KeyError"]                      \* params["z"]
        ELSE IF t.canned_r /\ combined_params.r = Absent
        THEN [t EXCEPT !.canned = TRUE, !.visual_commands = down,
                       !.error = "KeyError"]                      \* combined_params["r"]
        ELSE [t EXCEPT !.canned = TRUE, !.canned_z = z1,
                       !.visual_commands = add_command(down, "LinearVisualCommand", up),
                       !.params = up]

\* A G80 that leaves the run open.
G80_KeepsRun(t) == t

\* Line 402.
G80(t) == [t EXCEPT !.canned = FALSE]

\* Lines 405 and 408.
SetRelative(t, name) == [t EXCEPT !.relative = (name = "G91")]

\* Lines 413 and 415.
SetCannedR(t, name) == [t EXCEPT !.canned_r = (name = "G99")]

\* Lines 352-425: the match on command.Name.
Dispatch(t, name, combined_params) ==
    CASE name \in MotionNames -> Motion(t, name, combined_params)
      [] name \in {"G17", "G18", "G19"} -> ArcPlane(t, name)
      [] name = "G81" -> G81(t, combined_params)
      [] name = "G80" -> G80(t)
      [] name \in {"G90", "G91"} -> SetRelative(t, name)
      [] name \in {"G98", "G99"} -> SetCannedR(t, name)
      [] OTHER -> t

\* Lines 340-425: one turn of the loop over the commands.
Track(t, command) ==
    LET err == ToAbsoluteError(t.relative, t.params, command.Parameters)
        new_params == ToAbsolute(t.relative, t.params, command.Parameters)
    IN  IF err # "none"
        THEN [t EXCEPT !.error = err]
        ELSE Dispatch(t, command.Name, Combine(t.params, new_params))

\* generate_visual_commands on a whole command list.
RECURSIVE Run(_, _)
Run(t, commands) ==
    IF commands = <<>> \/ t.error # "none" THEN t
    ELSE Run(Track(t, Head(commands)), Tail(commands))

(***************************************************************************)
(* Reconstruction: the shape between two consecutive visual commands.      *)
(***************************************************************************)
Zero3 == <<0, 0, 0>>

\* gp_Vec(*self.arc_plane), gp_Dir(*self.arc_plane): the normal of the arc plane.
PlaneNormal(arc_plane) ==
    CASE arc_plane = "XY" -> <<0, 0, 1>>
      [] arc_plane = "XZ" -> <<0, 1, 0>>
      [] arc_plane = "YZ" -> <<1, 0, 0>>

\* gp_Vec.Crossed.
Crossed(a, b) ==
    <<a[2] * b[3] - a[3] * b[2], a[3] * b[1] - a[1] * b[3], a[1] * b[2] - a[2] * b[1]>>

Neg(v) == <<-v[1], -v[2], -v[3]>>
Abs(n) == IF n < 0 THEN -n ELSE n
MaxAbs(v) ==
    LET m12 == IF Abs(v[1]) > Abs(v[2]) THEN Abs(v[1]) ELSE Abs(v[2])
    IN  IF m12 > Abs(v[3]) THEN m12 ELSE Abs(v[3])

\* gp_Dir(x, y, z): the direction of a vector, kept as its smallest integer
\* multiple.  OCCT raises Standard_ConstructionError for a null vector; callers
\* test IsNull first.
IsNull(v) == v = Zero3
gp_Dir(v) ==
    LET g == CHOOSE d \in 1..MaxAbs(v) :
                 /\ \A n \in 1..3 : v[n] % d = 0
                 /\ \A e \in (d + 1)..MaxAbs(v) : \E n \in 1..3 : v[n] % e # 0
    IN  <<v[1] \div g, v[2] \div g, v[3] \div g>>

Pos(c) == <<c.x, c.y, c.z>>

\* A shape: what was built (geom), from which arguments, wrapped how (AIS_Line,
\* AIS_Circle, AIS_Shape, TopoDS_Edge), with which color key, or the exception
\* raised instead.  geom = "None" is Python's None.
Shape(geom, start, end, center, radius2, axis, xdir, height, pitch2, lefthand, color) ==
    [geom |-> geom, start |-> start, end |-> end, center |-> center,
     radius2 |-> radius2, axis |-> axis, xdir |-> xdir, height |-> height,
     pitch2 |-> pitch2, lefthand |-> lefthand, color |-> color,
     wrapper |-> "none", error |-> "none"]

NoShape == Shape("None", Zero3, Zero3, Zero3, 0, Zero3, Zero3, 0, 0, FALSE, "none")
Raised(error) == [NoShape EXCEPT !.error = error]

\* VisualCommand.__eq__ (lines 55-58).
VcEq(a, b) == a.x = b.x /\ a.y = b.y /\ a.z = b.z

\* The two offsets _to_shape requires for the plane (lines 123, 137, 151).
OffsetsMissing(self) ==
    CASE self.arc_plane = "XY" -> self.i = NoneV \/ self.j = NoneV
      [] self.arc_plane = "XZ" -> self.i = NoneV \/ self.k = NoneV
      [] self.arc_plane = "YZ" -> self.j = NoneV \/ self.k = NoneV

\* A height measured along Z whatever the plane.
Height_AlongZ(self, start) == self.z - start.z

\* height (lines 131, 145, 159): twice the distance from the start to the mid
\* point on the axis normal to the plane.
Height(self, start) ==
    CASE self.arc_plane = "XY" -> self.z - start.z
      [] self.arc_plane = "XZ" -> self.y - start.y
      [] self.arc_plane = "YZ" -> self.x - start.x

\* start_center (lines 132, 146, 160).
StartCenter(self, start) ==
    CASE self.arc_plane = "XY" -> <<start.x + self.i, start.y + self.j, start.z>>
      [] self.arc_plane = "XZ" -> <<start.x + self.i, start.y, start.z + self.k>>
      [] self.arc_plane = "YZ" -> <<start.x, start.y + self.j, start.z + self.k>>

\* A centre measured from the end of the arc.
Center_FromEnd(self, start) ==
    CASE self.arc_plane = "XY" -> <<self.x + self.i, self.y + self.j, self.z>>
      [] self.arc_plane = "XZ" -> <<self.x + self.i, self.y, self.z + self.k>>
      [] self.arc_plane = "YZ" -> <<self.x, self.y + self.j, self.z + self.k>>

\* c = gp_Pnt(cx, cy, cz) (line 167): as start_center, but half way from start
\* to end on the axis normal to the plane.
Center(self, start) ==
    CASE self.arc_plane = "XY" ->
           <<start.x + self.i, start.y + self.j, (start.z + self.z) \div 2>>
      [] self.arc_plane = "XZ" ->
           <<start.x + self.i, (start.y + self.y) \div 2, start.z + self.k>>
      [] self.arc_plane = "YZ" ->
           <<(start.x + self.x) \div 2, start.y + self.j, start.z + self.k>>

\* radius squared (lines 133, 147, 161).
Radius2(self) ==
    CASE self.arc_plane = "XY" -> self.i * self.i + self.j * self.j
      [] self.arc_plane = "XZ" -> self.i * self.i + self.k * self.k
      [] self.arc_plane = "YZ" -> self.j * self.j + self.k * self.k

\* full_circle (lines 134, 148, 162).
FullCircleInPlane(self, start) ==
    CASE self.arc_plane = "XY" -> start.x = self.x /\ start.y = self.y
      [] self.arc_plane = "XZ" -> start.x = self.x /\ start.z = self.z
      [] self.arc_plane = "YZ" -> start.y = self.y /\ start.z = self.z

\* cv = gp_Vec(i, j, k) of a flat arc (height = 0): the in-plane offsets, the
\* third component being the mid point's distance from the start, 0.
FlatCv(self) ==
    CASE self.arc_plane = "XY" -> <<self.i, self.j, 0>>
      [] self.arc_plane = "XZ" -> <<self.i, 0, self.k>>
      [] self.arc_plane = "YZ" -> <<0, self.j, self.k>>

\* A circle_normal_dir that is the same for both classes.
circle_normal_dir_Same(cls, circle_normal) == gp_Dir(circle_normal)

\* CWArcVisualCommand.circle_normal_dir / CCWArcVisualCommand.circle_normal_dir.
circle_normal_dir(cls, circle_normal) ==
    IF cls = "CWArcVisualCommand" THEN gp_Dir(circle_normal) ELSE gp_Dir(Neg(circle_normal))

\* The property clockwise of the two arc classes.
clockwise(cls) == cls = "CWArcVisualCommand"

\* The arithmetic of lines 125-162 raises TypeError on a z that is None.
ArcTypeError(self, start) ==
    start.z = NoneV \/ (self.arc_plane = "XY" /\ self.z = NoneV)

\* Lines 168-185: the helix (makeHelix keeps its arguments).
HelixShape(self, start) ==
    LET height == Height(self, start)
        full_circle == FullCircleInPlane(self, start)
    IN  Shape("Helix", Pos(start), Pos(self), StartCenter(self, start), Radius2(self),
              PlaneNormal(self.arc_plane), Zero3, height,
              IF full_circle THEN 2 * Abs(height) ELSE Abs(height),
              ~clockwise(self.cls), "green")

Sign(n) == IF n > 0 THEN 1 ELSE IF n < 0 THEN -1 ELSE 0

\* makeHelix, lines 241-244: the signs of the direction of geom_line in the
\* (u, v) domain of the cylinder, u the angle about dir counted
\* counter-clockwise seen from the tip of dir, v the distance along dir; the
\* pitch is an absolute value (lines 174, 176), hence positive.
geom_line(lefthand) == IF lefthand THEN <<-1, 1>> ELSE <<1, 1>>

\* makeHelix, line 247: the sign of n_turns = height / pitch.
n_turns(helix) == Sign(helix.height)

\* makeHelix, lines 248-250: the signs of u and v at the end of the segment,
\* which starts at (0, 0): the way the helix turns and the way it climbs.
u_stop(helix) ==
    <<geom_line(helix.lefthand)[1] * n_turns(helix),
      geom_line(helix.lefthand)[2] * n_turns(helix)>>

\* The linear tolerance of line 200 is 1 / ToleranceDenominator.
ToleranceDenominator == 10000

Dist2(a, b) ==
    (a[1] - b[1]) * (a[1] - b[1]) + (a[2] - b[2]) * (a[2] - b[2])
        + (a[3] - b[3]) * (a[3] - b[3])

\* A coincidence test that never finds two points equal.
IsEqual_Never(start_point, end_point) == FALSE

\* How many steps of the job's coordinates make one length unit: one, but in
\* the job "fine steps", whose coordinates are given in halves of the
\* tolerance.
Unit == IF job = "fine steps" THEN 2 * ToleranceDenominator ELSE 1

\* gp_Pnt.IsEqual(end_point, 1e-4) (line 200): the distance is at most the
\* tolerance; between integer points its square, in steps, is then at most
\* Unit^2 / ToleranceDenominator^2 rounded down.
IsEqual(start_point, end_point) ==
    Dist2(start_point, end_point)
        <= (Unit * Unit) \div (ToleranceDenominator * ToleranceDenominator)

\* Lines 187-207: the circle of a flat arc, whole or cut from start to end.
FlatShape(self, start) ==
    LET cv == FlatCv(self)
        forward == Crossed(cv, PlaneNormal(self.arc_plane))
        circle_normal == Crossed(cv, forward)
    IN  IF IsNull(circle_normal) \/ IsNull(forward)
        THEN Raised("Standard_ConstructionError")
        ELSE IF self.z = NoneV
        THEN Raised("TypeError")
        ELSE Shape(IF IsEqual(Pos(start), Pos(self)) THEN "Geom_Circle" ELSE "ArcOfCircle",
                   Pos(start), Pos(self), Center(self, start), Radius2(self),
                   circle_normal_dir(self.cls, circle_normal), gp_Dir(forward),
                   0, 0, FALSE, "yellow")

\* ArcVisualCommand._to_shape (lines 119-207).
to_shape(self, start) ==
    IF OffsetsMissing(self) THEN Raised("ValueError")
    ELSE IF ArcTypeError(self, start) THEN Raised("TypeError")
    ELSE IF Height(self, start) # 0 THEN HelixShape(self, start)
    ELSE FlatShape(self, start)

\* A segment built without the test for equal positions.
LinearShape_NoSkip(self, start) ==
    IF start.z = NoneV \/ self.z = NoneV THEN Raised("TypeError")
    ELSE Shape("Segment", Pos(start), Pos(self), Zero3, 0, Zero3, Zero3, 0, 0, FALSE, "none")

\* LinearVisualCommand.to_ais / to_edge up to the returned color (lines 62-76):
\* nothing for equal positions, else the segment between the two points.
LinearShape(self, start) ==
    IF VcEq(start, self) THEN NoShape
    ELSE IF start.z = NoneV \/ self.z = NoneV THEN Raised("TypeError")
    ELSE Shape("Segment", Pos(start), Pos(self), Zero3, 0, Zero3, Zero3, 0, 0, FALSE, "none")

\* ArcVisualCommand.to_ais (lines 99-108): the color of _to_shape is set.
ArcToAis(self, start) ==
    LET s == to_shape(self, start)
    IN  IF s.error # "none" THEN s
        ELSE [s EXCEPT !.wrapper = IF s.geom = "Geom_Circle" THEN "AIS_Circle" ELSE "AIS_Shape"]

\* ArcVisualCommand.to_edge (lines 110-117): the color of _to_shape is dropped.
ArcToEdge(self, start) ==
    LET s == to_shape(self, start)
    IN  IF s.error # "none" THEN s
        ELSE [s EXCEPT !.wrapper = "TopoDS_Edge", !.color = "yellow"]

\* LinearVisualCommand.to_ais (lines 62-68): an AIS_Line, no color set.
LinearToAis(self, start) ==
    LET s == LinearShape(self, start)
    IN  IF s.geom = "None" THEN s ELSE [s EXCEPT !.wrapper = "AIS_Line"]

\* LinearVisualCommand.to_edge (lines 70-76).
LinearToEdge(self, start) ==
    LET s == LinearShape(self, start)
    IN  IF s.geom = "None" THEN s ELSE [s EXCEPT !.wrapper = "TopoDS_Edge", !.color = "yellow"]

\* end.to_ais(start), dispatched on the class of end.
to_ais(self, start) ==
    IF self.cls \in ArcClasses THEN ArcToAis(self, start) ELSE LinearToAis(self, start)

\* end.to_edge(start), dispatched on the class of end.
to_edge(self, start) ==
    IF self.cls \in ArcClasses THEN ArcToEdge(self, start) ELSE LinearToEdge(self, start)


(***************************************************************************)
(* The display assemblers.                                                 *)
(***************************************************************************)
\* What an assembler or visualize_fc_job returns: None, an AIS group (the
\* shapes connected to it), a list of (color, compound) pairs (a compound being
\* the list of its edges), or the exception raised.
NoneResult == [kind |-> "None", group |-> <<>>, compounds |-> <<>>, error |-> "none"]
GroupResult(shapes) == [NoneResult EXCEPT !.kind = "group", !.group = shapes]
CompoundsResult(pairs) == [NoneResult EXCEPT !.kind = "compounds", !.compounds = pairs]
RaisedResult(error) == [NoneResult EXCEPT !.kind = "raised", !.error = error]

\* Lines 439-442: the loop over pairwise(visual_commands), from pair n on.
RECURSIVE ConnectAis(_, _, _)
ConnectAis(visual_commands, n, group) ==
    IF n > Len(visual_commands) THEN GroupResult(group)
    ELSE LET shape == to_ais(visual_commands[n], visual_commands[n - 1])
         IN  IF shape.error # "none" THEN RaisedResult(shape.error)
             ELSE ConnectAis(visual_commands, n + 1,
                             IF shape.geom = "None" THEN group ELSE Append(group, shape))

\* An assembler that makes its group whatever the number of records.
visual_commands_to_ais_AlwaysGroup(visual_commands) == ConnectAis(visual_commands, 2, <<>>)

\* visual_commands_to_ais (lines 429-446).
visual_commands_to_ais(visual_commands) ==
    IF Len(visual_commands) < 2 THEN NoneResult
    ELSE ConnectAis(visual_commands, 2, <<>>)

\* color_edge_map[color_key].append(edge) on a defaultdict(list), the keys in
\* the order of their first use.
AppendEdge(color_edge_map, color_key, edge) ==
    IF \E n \in 1..Len(color_edge_map) : color_edge_map[n].color = color_key
    THEN [n \in 1..Len(color_edge_map) |->
            IF color_edge_map[n].color = color_key
            THEN [color_edge_map[n] EXCEPT !.edges = Append(@, edge)]
            ELSE color_edge_map[n]]
    ELSE Append(color_edge_map, [color |-> color_key, edges |-> <<edge>>])

\* Lines 466-471: the loop over pairwise(visual_commands), from pair n on.
RECURSIVE CollectEdges(_, _, _)
CollectEdges(visual_commands, n, color_edge_map) ==
    IF n > Len(visual_commands) THEN CompoundsResult(color_edge_map)
    ELSE LET pair == to_edge(visual_commands[n], visual_commands[n - 1])
         IN  IF pair.error # "none" THEN RaisedResult(pair.error)
             ELSE CollectEdges(visual_commands, n + 1,
                               IF pair.geom = "None" THEN color_edge_map
                               ELSE AppendEdge(color_edge_map, pair.color, pair))

\* visual_commands_to_edges (lines 449-477).
visual_commands_to_edges(visual_commands) ==
    IF Len(visual_commands) < 2 THEN CompoundsResult(<<>>)
    ELSE CollectEdges(visual_commands, 2, <<>>)

(***************************************************************************)
(* visualize_fc_job: the dispatch on the module show_object comes from.    *)
(***************************************************************************)
Hosts == {"no show_object", "cq_editor", "ocp_vscode", "other"}

\* rgb_color_map (lines 37-40).
rgb_color_map(color) ==
    CASE color = "yellow" -> <<150, 150, 0>>
      [] color = "green" -> <<0, 200, 0>>

\* ais_color_map (lines 33-36): the colors an AIS shape can be given.
ais_colors == {"yellow", "green"}

\* One call of show_object: the object and what came with it.
ShowCall(object, name, color) == [object |-> object, name |-> name, color |-> color]

\* Calls of show_object that always pass the color option.
ShowCompounds_Colored(pairs, with_color) ==
    [n \in 1..Len(pairs) |->
        [object |-> <<pairs[n]>>, name |-> "none", color |-> rgb_color_map(pairs[n].color)]]

\* The calls of show_object of lines 299-302 (with the color option) and
\* 314-315 (without).
ShowCompounds(pairs, with_color) ==
    [n \in 1..Len(pairs) |->
        ShowCall(<<pairs[n]>>, "none",
                 IF with_color THEN rgb_color_map(pairs[n].color) ELSE Zero3)]

\* What visualize_fc_job leaves: the value returned (or the exception), the
\* calls of show_object, the warnings logged.
Presented(result, shown, warnings) ==
    [result |-> result, shown |-> shown, warnings |-> warnings]

\* Lines 284-289: the cq_editor case.
ShowAis(ais) ==
    IF ais.kind = "raised" THEN Presented(ais, <<>>, <<>>)
    ELSE IF ais.kind = "None" THEN Presented(NoneResult, <<>>, <<"Empty job">>)
    ELSE Presented(ais, <<ShowCall(ais.group, "G-Code", Zero3)>>, <<>>)

\* Lines 292-303 and 308-316: the edge cases; color_compounds is a list, never
\* None, so the test for an empty job never succeeds.
ShowEdges(color_compounds, with_color, warnings) ==
    IF color_compounds.kind = "raised" THEN Presented(color_compounds, <<>>, warnings)
    ELSE Presented(color_compounds,
                   ShowCompounds(color_compounds.compounds, with_color), warnings)

\* visualize_fc_job after generate_visual_commands (lines 278-316).
Present(host, visual_commands) ==
    CASE host = "no show_object" ->
           Presented(visual_commands_to_ais(visual_commands), <<>>, <<"No show object">>)
      [] host = "cq_editor" -> ShowAis(visual_commands_to_ais(visual_commands))
      [] host = "ocp_vscode" ->
           ShowEdges(visual_commands_to_edges(visual_commands), TRUE, <<>>)
      [] host = "other" ->
           ShowEdges(visual_commands_to_edges(visual_commands), FALSE,
                     <<"Unsupported show_object source module">>)

(***************************************************************************)
(* Jobs and operations (api.py, fc_impl.py, api_util.py).                  *)
(*                                                                         *)
(* Parameter values are strings; PyNone is Python's None, "None" the       *)
(* coolant mode of that name, "" a value that is false but not None.  A   *)
(* dict of parameters is the set of its (key, value) pairs.                *)
(***************************************************************************)
PyNone == "<None>"

\* A mapped value: AutoUnitValue(v) when auto_unit, else v itself.
Value(v, auto_unit) == [value |-> v, auto_unit |-> auto_unit]

\* The three kinds of entry of a ParamMapping (api_util.py, line 322).
Plain(nk) == [kind |-> "str", key |-> nk, dv |-> <<>>]
AutoUnitKey(key) == [kind |-> "AutoUnitKey", key |-> key, dv |-> <<>>]
Enumerated(nk, dv) == [kind |-> "tuple", key |-> nk, dv |-> dv]

\* A dict from a sequence of (key, value) pairs, and its lookup.
Lookup(dv, k) == (CHOOSE n \in 1..Len(dv) : dv[n][1] = k)
At(dv, k) == dv[Lookup(dv, k)][2]

\* map_prop (api_util.py, lines 325-333).
map_prop(mapping, k, v) ==
    LET result == mapping[k]
    IN  CASE result.kind = "AutoUnitKey" -> <<result.key, Value(v, TRUE)>>
          [] result.kind = "tuple" -> <<result.key, Value(At(result.dv, v), FALSE)>>
          [] OTHER -> <<result.key, Value(v, FALSE)>>

\* map_params (api_util.py, lines 336-337): kwargs is a function from the
\* keyword names to the values given.
\* A map_params that drops every falsy value, not only None.
map_params_DropsFalsy(mapping, kwargs) ==
    {map_prop(mapping, k, kwargs[k]) : k \in {k \in DOMAIN kwargs : kwargs[k] \notin {PyNone, ""}}}

map_params(mapping, kwargs) ==
    {map_prop(mapping, k, kwargs[k]) : k \in {k \in DOMAIN kwargs : kwargs[k] # PyNone}}

\* Op.__param_mapping (fc_impl.py, lines 208-215).
Op_param_mapping ==
    [clearance_height |-> Plain("ClearanceHeight"), final_depth |-> Plain("FinalDepth"),
     safe_height |-> Plain("SafeHeight"), start_depth |-> Plain("StartDepth"),
     step_down |-> Plain("StepDown"), coolant |-> Plain("CoolantMode")]

\* ProfileOp.param_mapping (fc_impl.py, lines 316-343), three of its entries.
ProfileOp_param_mapping ==
    [side |-> Enumerated("Side", <<<<"in", "Inside">>, <<"out", "Outside">>>>),
     offset_extra |-> AutoUnitKey("OffsetExtra"),
     use_comp |-> Plain("UseComp")]

\* JobImpl._setup_sheet_param_mapping (fc_impl.py, lines 61-70), its coolant entry.
setup_sheet_param_mapping == [coolant |-> Plain("CoolantMode")]

\* Tab.mapping and Dogbone.mapping (api.py, lines 967-975 and 913-927), the
\* entries of the parameters the model gives.
Tab_mapping == [angle |-> Plain("Angle"), width |-> AutoUnitKey("Width")]
Dogbone_mapping ==
    [side |-> Plain("Side"),
     style |-> Enumerated("Style", <<<<"dogbone", "Dogbone">>, <<"tver", "T-bone vertical">>>>)]

\* Tab.__init__ and Dogbone.__init__ (api.py, lines 977-1010 and 929-948);
\* given records the arguments (history).
Tab(angle, width) ==
    [cls |-> "Tab", given |-> [angle |-> angle, width |-> width],
     mapping |-> Tab_mapping,
     params |-> map_params(Tab_mapping, [angle |-> angle, width |-> width])]
Dogbone(side, style) ==
    [cls |-> "Dogbone", given |-> [side |-> side, style |-> style],
     mapping |-> Dogbone_mapping,
     params |-> map_params(Dogbone_mapping, [side |-> side, style |-> style])]

\* The Toolbit objects the caller holds (api_tool.py, lines 84-87: none has a
\* tool controller yet).
Tools == {1, 2}

\* Op.__init__ (fc_impl.py, lines 217-245): the operation keeps its name and
\* the mapped parameters, its Toolbit and its dressups; id tells one Op
\* object from another, and given records the arguments of the call
\* (history, no attribute of the object).
NewOp(id, cls, name, step_down, coolant, tool, dressups) ==
    [id |-> id, cls |-> cls, name |-> name, tool |-> tool, dressups |-> dressups,
     given |-> [step_down |-> step_down, coolant |-> coolant],
     params |-> map_params(Op_param_mapping,
                           [clearance_height |-> PyNone, final_depth |-> PyNone,
                            safe_height |-> PyNone, start_depth |-> PyNone,
                            step_down |-> step_down, coolant |-> coolant])]

\* Op.n (fc_impl.py, lines 247-249): the 1-based index of the operation among
\* the operations of its class in the job's list.
RECURSIVE same_ops(_, _)
same_ops(ops, cls) ==
    IF ops = <<>> THEN <<>>
    ELSE (IF Head(ops).cls = cls THEN <<Head(ops)>> ELSE <<>>) \o same_ops(Tail(ops), cls)

\* An Op.n that counts the operations of every class.
Op_n_Overall(self, ops) ==
    (CHOOSE k \in 1..Len(ops) : ops[k].id = self.id)

Op_n(self, ops) ==
    LET same == same_ops(ops, self.cls)
    IN  (CHOOSE k \in 1..Len(same) :
            same[k].id = self.id /\ \A m \in 1..(k - 1) : same[m].id # self.id)

\* Op.label (fc_impl.py, lines 308-311); an empty name is no name.
label(self, ops) ==
    IF self.name \notin {PyNone, ""} THEN self.name
    ELSE self.cls \o "_" \o ToString(Op_n(self, ops))

\* A property of a FreeCAD object after apply_params (api_util.py, lines
\* 340-347): the value set, else the default given.
Property(params, key, default) ==
    IF \E pair \in params : pair[1] = key
    THEN (CHOOSE pair \in params : pair[1] = key)[2].value
    ELSE default

\* Op.execute (fc_impl.py, lines 251-261) in a document whose setup sheet has
\* the given parameters: the operation created under its label, with the
\* properties set on it, and the coolant mode in effect, which is the setup
\* sheet's when none is set on the operation (tests/test_gcode.py, lines
\* 27-54).
execute(self, ops, setup_sheet_params) ==
    [label |-> label(self, ops),
     op |-> self.id,
     set |-> {pair[1] : pair \in self.params},
     CoolantMode |-> Property(self.params, "CoolantMode",
                              Property(setup_sheet_params, "CoolantMode", "None"))]

(***************************************************************************)
(* The command lists the model runs.                                       *)
(***************************************************************************)
\* Longest command list of the free job.
MaxCmds == 3
\* Longest command list of a replayed job.
MaxReplayCmds == 2
\* Calls counted after the remembered one.
MaxCalls == 2

A == Absent

ModeCommands ==
    {Cmd(n, NoParams) : n \in {"G17", "G18", "G19", "G80", "G90", "G91", "G98", "G99"}}

\* Commands the match knows no motion or mode for: a comment, an M-code, the
\* work offset G54, and the peck drilling cycle G83 with its parameters.
IgnoredCommands ==
    {Cmd("(comment)", NoParams), Cmd("M3", NoParams), Cmd("G54", NoParams),
     Cmd("G83", Prm(1, A, 0, A, A, A, 1))}

MotionCommands ==
    {Cmd("G0", XYZ(A, A, 1)), Cmd("G0", XYZ(1, A, A)),
     Cmd("G1", XYZ(1, A, 0)), Cmd("G1", XYZ(A, A, 0)), Cmd("G1", NoParams),
     Cmd("G2", Prm(A, A, A, 1, 1, A, A)), Cmd("G2", Prm(1, A, A, 1, A, A, A)),
     Cmd("G2", Prm(A, A, 0, 1, 0, A, A)), Cmd("G2", Prm(A, A, A, 0, 0, A, A)),
     Cmd("G3", Prm(1, A, A, 1, 1, A, A))}

CannedCommands ==
    {Cmd("G81", Prm(1, 1, 0, A, A, A, 1)), Cmd("G81", Prm(1, A, 0, A, A, A, 2)),
     Cmd("G81", XYZ(0, A, 0))}

FreeCommands == ModeCommands \cup IgnoredCommands \cup MotionCommands \cup CannedCommands

ReplayCommands ==
    {Cmd("G91", NoParams), Cmd("G99", NoParams), Cmd("G18", NoParams),
     Cmd("G0", XYZ(1, A, 1)), Cmd("G81", Prm(1, A, 0, A, A, A, 2)),
     Cmd("G2", Prm(1, A, A, 1, 1, A, A))}

\* Command lists the specification and the tests of drilling name.
Scenario(list) ==
    CASE list = "canned cycle" ->
           <<Cmd("G0", XYZ(0, 0, 5)), Cmd("G99", NoParams),
             Cmd("G81", Prm(2, -2, -2, A, A, A, 3)), Cmd("G80", NoParams)>>
      [] list = "color bucketing" ->
           <<Cmd("G0", XYZ(1, 0, 0)), Cmd("G1", XYZ(2, 0, 0)),
             Cmd("G2", Prm(2, 2, A, 0, 1, A, A))>>
      [] list = "relative drilling" ->
           <<Cmd("G0", XYZ(0, 0, 5)), Cmd("G91", NoParams), Cmd("G99", NoParams),
             Cmd("G81", Prm(2, -2, -2, A, A, A, 3))>>
      [] list = "retract mode switch" ->
           <<Cmd("G0", XYZ(A, A, 5)), Cmd("G99", NoParams),
             Cmd("G81", Prm(1, A, 0, A, A, A, 1)), Cmd("G98", NoParams),
             Cmd("G81", Prm(2, A, 0, A, A, A, 1))>>
      [] list = "helix up and down" ->
           <<Cmd("G0", XYZ(1, 0, 0)), Cmd("G2", Prm(1, 0, 1, -1, 0, A, A)),
             Cmd("G2", Prm(1, 0, 0, -1, 0, A, A)), Cmd("G3", Prm(1, 0, 1, -1, 0, A, A)),
             Cmd("G3", Prm(1, 0, 0, -1, 0, A, A))>>
      [] list = "arc centre" ->
           <<Cmd("G0", XYZ(0, 0, 0)), Cmd("G2", Prm(0, 5, A, 0, 5, A, A)),
             Cmd("G18", NoParams), Cmd("G2", Prm(2, A, A, 1, A, 0, A)),
             Cmd("G19", NoParams), Cmd("G3", Prm(A, 5, 2, A, 0, 1, A))>>
      [] list = "relative arcs" ->
           <<Cmd("G0", XYZ(1, 2, 3)), Cmd("G91", NoParams),
             Cmd("G2", Prm(2, -1, A, 1, 0, A, 4)), Cmd("G3", Prm(1, A, A, 1, 1, A, A)),
             Cmd("G90", NoParams), Cmd("G1", XYZ(1, A, 0))>>
      [] list = "planes" ->
           <<Cmd("G0", XYZ(0, 1, 0)), Cmd("G18", NoParams),
             Cmd("G2", Prm(2, 0, 2, 1, A, 1, A)), Cmd("G3", Prm(0, A, 0, -1, A, -1, A)),
             Cmd("G19", NoParams), Cmd("G2", Prm(1, 2, A, A, 1, 0, A)),
             Cmd("G3", Prm(A, 0, 2, A, -1, 1, A))>>
      [] list = "long and short arcs" ->
           <<Cmd("G0", XYZ(1, 0, 0)), Cmd("G2", Prm(0, 1, A, -1, 0, A, A)),
             Cmd("G2", Prm(1, 0, A, 0, -1, A, A)), Cmd("G3", Prm(0, 1, A, -1, 0, A, A)),
             Cmd("G3", Prm(1, 0, A, 0, -1, A, A))>>
      [] list = "fine steps" ->
           <<Cmd("G0", XYZ(0, 0, 0)), Cmd("G1", XYZ(1, A, A)),
             Cmd("G2", Prm(0, A, A, 3, 0, A, A)), Cmd("G2", Prm(1, A, 5, 3, 0, A, A)),
             Cmd("G1", XYZ(1, A, 5)), Cmd("G0", XYZ(4, A, A))>>
      [] list = "drill run" ->
           <<Cmd("G0", XYZ(A, A, 5)), Cmd("G98", NoParams),
             Cmd("G81", Prm(1, A, 0, A, A, A, 1)), Cmd("G81", Prm(2, A, 0, A, A, A, 2)),
             Cmd("G80", NoParams), Cmd("G0", XYZ(A, A, 3)),
             Cmd("G81", Prm(3, A, 0, A, A, A, 1))>>

ScenarioJobs ==
    {"canned cycle", "relative drilling", "color bucketing", "retract mode switch",
     "drill run", "helix up and down", "arc centre", "relative arcs",
     "planes", "long and short arcs", "fine steps"}
Jobs == {"free"} \cup ScenarioJobs

(***************************************************************************)
(* State.                                                                  *)
(***************************************************************************)
VARIABLES
    pc,               \* "idle", "tracking" (in the loop of line 340), "done", "failed"
    commands,         \* the commands consumed so far
    params, relative, canned, canned_r, canned_z, visual_commands,
    error,            \* the exception raised in generate_visual_commands, "none" if none
    before,           \* the tracker as it was before the last command
    host,             \* the module of show_object
    result,           \* what visualize_fc_job returned
    shown,            \* the calls of show_object
    warnings,         \* the warnings logged
    log,              \* history: the first finished call
    jobs,             \* the Job objects made so far, each with its JobImpl
    documents,        \* the FreeCAD documents made so far
    last,             \* the last call on a Job and how it ended
    toolbits          \* per Toolbit object, the document its tool controller was made in

trackerVars == <<params, relative, canned, canned_r, canned_z, visual_commands>>
presentVars == <<host, result, shown, warnings>>
visualizerVars == <<pc, job, commands, trackerVars, error, before, presentVars, log>>
jobVars == <<jobs, documents, last, toolbits>>
vars == <<visualizerVars, jobVars>>

Tracker ==
    [params |-> params, relative |-> relative, canned |-> canned, canned_r |-> canned_r,
     canned_z |-> canned_z, visual_commands |-> visual_commands, error |-> error]

\* A tracker whose coordinate mode outlives the call that set it.
LeakyTracker == [InitialTracker EXCEPT !.relative = relative]

\* The tracker a call starts with: the locals of lines 324-330 are new in every call.
FreshTracker == InitialTracker

SetTracker(t) ==
    /\ params' = t.params
    /\ relative' = t.relative
    /\ canned' = t.canned
    /\ canned_r' = t.canned_r
    /\ canned_z' = t.canned_z
    /\ visual_commands' = t.visual_commands
    /\ error' = t.error

\* No call on a Job yet.
NoCall ==
    [call |-> "none", job |-> 0, force_rebuild |-> FALSE, outcome |-> "none",
     built |-> FALSE, before |-> <<>>, documents |-> <<>>]

NoLog ==
    [set |-> FALSE, commands |-> <<>>, visual_commands |-> <<>>, error |-> "none",
     calls |-> 0]

Init ==
    /\ pc = "idle"
    /\ job = "free"
    /\ commands = <<>>
    /\ params = InitialTracker.params
    /\ relative = FALSE
    /\ canned = FALSE
    /\ canned_r = FALSE
    /\ canned_z = NoneV
    /\ visual_commands = <<>>
    /\ error = "none"
    /\ before = InitialTracker
    /\ host = "no show_object"
    /\ result = NoneResult
    /\ shown = <<>>
    /\ warnings = <<>>
    /\ log = NoLog
    /\ jobs = <<>>
    /\ documents = <<>>
    /\ last = NoCall
    /\ toolbits = [tool \in Tools |-> 0]

\* The commands that can come next in the job's list.
NextCommands ==
    CASE job = "free" -> IF Len(commands) < MaxCmds THEN FreeCommands ELSE {}
      [] job = "replay" -> IF Len(commands) < MaxReplayCmds THEN ReplayCommands ELSE {}
      [] OTHER -> IF Len(commands) < Len(Scenario(job))
                  THEN {Scenario(job)[Len(commands) + 1]} ELSE {}

\* visualize_fc_job is called on a job: generate_visual_commands sets up its
\* locals (lines 324-330).
Begin(j) ==
    /\ pc \in {"idle", "done", "failed"}
    /\ pc' = "tracking"
    /\ job' = j
    /\ commands' = <<>>
    /\ SetTracker(FreshTracker)
    /\ before' = FreshTracker
    /\ host' = "no show_object"
    /\ result' = NoneResult
    /\ shown' = <<>>
    /\ warnings' = <<>>
    /\ log.set => log.calls < MaxCalls
    /\ log' = IF log.set THEN [log EXCEPT !.calls = @ + 1] ELSE log
    /\ UNCHANGED jobVars

\* One turn of the loop of line 340; an exception ends the call.
ProcessCommand(command) ==
    /\ pc = "tracking"
    /\ command \in NextCommands
    /\ LET t == Track(Tracker, command)
       IN  /\ SetTracker(t)
           /\ pc' = IF t.error = "none" THEN "tracking" ELSE "failed"
           /\ result' = IF t.error = "none" THEN result ELSE RaisedResult(t.error)
    /\ commands' = Append(commands, command)
    /\ before' = Tracker
    /\ UNCHANGED <<job, host, shown, warnings, log, jobVars>>

\* The command list is exhausted: generate_visual_commands returns and
\* visualize_fc_job presents the visual commands to the host (lines 278-316).
Show(h) ==
    /\ pc = "tracking"
    /\ \E out \in {Present(h, visual_commands)} :
          /\ result' = out.result
          /\ shown' = out.shown
          /\ warnings' = out.warnings
          /\ pc' = IF out.result.kind = "raised" THEN "failed" ELSE "done"
    /\ host' = h
    /\ UNCHANGED <<job, commands, trackerVars, error, before, log, jobVars>>

\* History: the first call that ended is remembered.
Record ==
    /\ pc \in {"done", "failed"}
    /\ ~log.set
    /\ log' = [set |-> TRUE, commands |-> commands,
               visual_commands |-> visual_commands, error |-> error, calls |-> 0]
    /\ UNCHANGED <<pc, job, commands, trackerVars, error, before, presentVars, jobVars>>

Next ==
    \/ \E j \in Jobs : Begin(j)
    \/ \E command \in NextCommands :
          ProcessCommand(command)
    \/ \E h \in Hosts : Show(h)

Spec == Init /\ [][Next]_vars

\* Calls that replay command lists, the first one remembered.
NextReplay ==
    \/ Begin("replay")
    \/ \E command \in ReplayCommands : ProcessCommand(command)
    \/ \E h \in {"no show_object"} : Show(h)
    \/ Record

SpecReplay == Init /\ [][NextReplay]_vars

(***************************************************************************)
(* Job objects: construction, the fluent addition of operations, and the   *)
(* three calls that need the FreeCAD document.                             *)
(***************************************************************************)
MaxJobs == 4
MaxDocs == 2

PostProcessors == {PyNone, "grbl"}
Coolants == {PyNone, "None", "Flood"}

\* The operations the model adds: class, name, step_down, coolant, Toolbit,
\* dressups.
OpInputs ==
    {<<"ProfileOp", PyNone, PyNone, PyNone, 1, <<>> >>,
     <<"ProfileOp", PyNone, "", "None", 1, <<>> >>,
     <<"DrillOp", PyNone, "1 mm", "Mist", 1, <<>> >>,
     <<"DrillOp", "rough", PyNone, PyNone, 1, <<>> >>}

\* Operations with dressups, on one Toolbit or the other.
DressedInputs ==
    {<<"ProfileOp", PyNone, PyNone, PyNone, 1, <<Tab(PyNone, PyNone)>> >>,
     <<"PocketOp", PyNone, PyNone, PyNone, 1,
       <<Dogbone(PyNone, PyNone), Tab(PyNone, PyNone)>> >>,
     <<"ProfileOp", PyNone, PyNone, PyNone, 2, <<Tab("45", "2 mm")>> >>,
     <<"PocketOp", PyNone, PyNone, PyNone, 2,
       <<Tab(PyNone, PyNone), Dogbone(PyNone, "tver")>> >>,
     <<"DrillOp", PyNone, PyNone, PyNone, 2, <<>> >>}

\* FreeCAD.closeDocument takes the name of a document (tests/test_params.py,
\* line 28); given anything else it raises TypeError and closes nothing.
closeDocument(docs, arg) ==
    IF arg.type = "str"
    THEN [error |-> "none", documents |-> [docs EXCEPT ![arg.doc].open = FALSE]]
    ELSE [error |-> "TypeError", documents |-> docs]

\* What a call leaves: the JobImpl, the documents, the Toolbit objects, how
\* _build ended, whether it made a document.
Built(job_impl, docs, tools, raised, built) ==
    [job_impl |-> job_impl, documents |-> docs, toolbits |-> tools, error |-> raised,
     built |-> built]

\* A document as FreeCAD.newDocument and FCJob.Create leave it (fc_impl.py,
\* lines 140-163): open, no operation executed, no tool controller in the
\* job, no Path object, nothing in the job's group of operations.
EmptyDocument ==
    [open |-> TRUE, ops |-> <<>>, controllers |-> <<>>, registered |-> {},
     objects |-> <<>>, group |-> <<>>]

\* The build in progress: the document, the Toolbit objects, the exception.
Building(tools) == [doc |-> EmptyDocument, toolbits |-> tools, error |-> "none"]

\* A tool controller: which Toolbit made it, for the job of which document.
Controller(tool, d) == [tool |-> tool, doc |-> d]

\* Toolbit.tool_controller and Toolbit.create (api_tool.py, lines 98-116): the
\* controller is made and added to the job only while the Toolbit has none.
tool_controller(st, tool, d) ==
    IF st.toolbits[tool] = 0
    THEN [st EXCEPT !.toolbits[tool] = d, !.doc.registered = @ \cup {Controller(tool, d)}]
    ELSE st

\* A Path object of the document: an operation or a dressup, its Base, the
\* properties set on it, whether it was executed, the Op it belongs to, and
\* for a dressup the Dressup it was made from.
PathObject(name, kind, base, op, dressup) ==
    [name |-> name, kind |-> kind, base |-> base, set |-> {}, executed |-> FALSE, op |-> op,
     dressup |-> dressup]

\* job.Proxy.addOperation(obj, base) (api.py, line 953; for Tab the factory
\* does it): obj enters the group in front of base.
RECURSIVE addOperation(_, _, _)
addOperation(group, obj, base) ==
    IF group = <<>> THEN <<obj>>
    ELSE IF Head(group) = base THEN <<obj>> \o group
    ELSE <<Head(group)>> \o addOperation(Tail(group), obj, base)

\* A dressup that leaves its base in the groups.
RemoveBase_Kept(group, base) == group

\* api.py, lines 958-960 and 1017-1019: the base is taken out of every group
\* that holds it.
RemoveBase(group, base) == SelectSeq(group, LAMBDA o : o # base)

\* Dressup.create, Dogbone.create, Tab.create (fc_impl.py, lines 834-835;
\* api.py, lines 950-962 and 1012-1021).
create(st, dressup, base, op) ==
    [st EXCEPT
        !.doc.objects = Append(@, PathObject("Dressup" \o dressup.cls, "dressup", base, op,
                                             <<dressup>>)),
        !.doc.group = RemoveBase(addOperation(@, Len(st.doc.objects) + 1, base), base)]

\* The number of characters of a FreeCAD property name.
NameLength(key) ==
    CASE key = "Side" -> 4 [] key \in {"Angle", "Style", "Width"} -> 5

\* fc_impl.py, lines 303-304: 'for k, v in dressup.params' iterates the keys
\* of the dict, and unpacking a key into k, v raises ValueError unless it has
\* two characters.
set_properties(st, dressup_params) ==
    IF \E pair \in dressup_params : NameLength(pair[1]) # 2
    THEN [st EXCEPT !.error = "ValueError"]
    ELSE st

\* Op.create_dressups (fc_impl.py, lines 299-306).
RECURSIVE create_dressups(_, _, _, _)
create_dressups(st, dressups, base, op) ==
    IF dressups = <<>> \/ st.error # "none" THEN st
    ELSE LET applied == set_properties(create(st, Head(dressups), base, op),
                                       Head(dressups).params)
             fc_dressup == Len(st.doc.objects) + 1
         IN  IF applied.error # "none" THEN applied
             ELSE create_dressups([applied EXCEPT !.doc.objects[fc_dressup].executed = TRUE],
                                  Tail(dressups), fc_dressup, op)

\* Op.execute (fc_impl.py, lines 251-261) in the document d being built: the
\* tool controller, the operation with its parameters, the dressups.
execute_in(st, self, job_impl, d) ==
    LET tooled == tool_controller(st, self.tool, d)
        fc_op == Len(st.doc.objects) + 1
        done == execute(self, job_impl.ops, job_impl.setup_sheet_params)
    IN  create_dressups(
            [tooled EXCEPT
                !.doc.objects = Append(@, [PathObject(done.label, "op", 0, self.id, <<>>)
                                             EXCEPT !.set = done.set, !.executed = TRUE]),
                !.doc.group = Append(@, fc_op),
                !.doc.ops = Append(@, done),
                !.doc.controllers = Append(@, Controller(self.tool, tooled.toolbits[self.tool]))],
            self.dressups, fc_op, self.id)

\* fc_impl.py, lines 165-166.
RECURSIVE execute_all(_, _, _, _)
execute_all(st, job_impl, k, d) ==
    IF k > Len(job_impl.ops) \/ st.error # "none" THEN st
    ELSE execute_all(execute_in(st, job_impl.ops[k], job_impl, d), job_impl, k + 1, d)

\* JobImpl._build from line 140 on: a new document, the job's operations
\* executed in it; the document is the job's even when an operation raises.
NewDocument(job_impl, docs, tools) ==
    LET st == execute_all(Building(tools), job_impl, 1, Len(docs) + 1)
    IN  Built([job_impl EXCEPT !.doc = Len(docs) + 1], Append(docs, st.doc), st.toolbits,
              st.error, TRUE)

\* JobImpl._build (fc_impl.py, lines 134-168); line 138 hands closeDocument
\* the document itself.
build(job_impl, docs, tools, rebuild) ==
    IF job_impl.doc # 0
    THEN IF ~rebuild THEN Built(job_impl, docs, tools, "none", FALSE)
         ELSE LET closed == closeDocument(docs, [type |-> "App.Document", doc |-> job_impl.doc])
              IN  IF closed.error # "none"
                  THEN Built(job_impl, docs, tools, closed.error, FALSE)
                  ELSE NewDocument(job_impl, closed.documents, tools)
    ELSE NewDocument(job_impl, docs, tools)

\* Job.__init__ (api.py, lines 109-132; fc_impl.py, lines 101-121); given
\* records the coolant argument of the call (history, no attribute).
Job(post_processor, coolant) ==
    /\ jobs = <<>>
    /\ jobs' = <<[post_processor |-> post_processor,
                  setup_sheet_params |->
                      map_params(setup_sheet_param_mapping, [coolant |-> coolant]),
                  given |-> [coolant |-> coolant],
                  doc |-> 0, ops |-> <<>>, needs_rebuild |-> TRUE]>>
    /\ last' = [NoCall EXCEPT !.call = "Job", !.job = 1]
    /\ UNCHANGED <<documents, toolbits, visualizerVars>>

\* An _add_op that appends to the receiver's own list.
add_op_Shared(j, input) ==
    /\ j \in 1..Len(jobs)
    /\ Len(jobs) < MaxJobs
    /\ LET op == NewOp(Len(jobs), input[1], input[2], input[3], input[4], input[5], input[6])
       IN  jobs' = Append([jobs EXCEPT ![j].ops = Append(@, op)],
                          [jobs[j] EXCEPT !.doc = 0, !.ops = Append(@, op),
                                          !.needs_rebuild = TRUE])
    /\ last' = [NoCall EXCEPT !.call = "add_op", !.job = Len(jobs) + 1, !.before = <<jobs[j]>>]
    /\ UNCHANGED <<documents, toolbits, visualizerVars>>

\* Job._add_op (api.py, lines 180-186) with JobImpl.copy (fc_impl.py, lines
\* 197-201): another Job, its list the old one with the new operation
\* appended, without a document.
add_op(j, input) ==
    /\ j \in 1..Len(jobs)
    /\ Len(jobs) < MaxJobs
    /\ LET op == NewOp(Len(jobs), input[1], input[2], input[3], input[4], input[5], input[6])
       IN  jobs' = Append(jobs, [jobs[j] EXCEPT !.doc = 0, !.ops = Append(@, op),
                                               !.needs_rebuild = TRUE])
    /\ last' = [NoCall EXCEPT !.call = "add_op", !.job = Len(jobs) + 1, !.before = <<jobs[j]>>]
    /\ UNCHANGED <<documents, toolbits, visualizerVars>>

\* The part show, to_gcode and save_fcstd share (api.py, lines 144-147,
\* 160-161, 174-177): the JobImpl method builds with rebuild =
\* _needs_rebuild or force_rebuild, and the flag is cleared when it returns.
Call(name, j, force_rebuild, raised) ==
    /\ j \in 1..Len(jobs)
    /\ \E out \in {IF raised # "none" THEN Built(jobs[j], documents, toolbits, raised, FALSE)
                    ELSE build(jobs[j], documents, toolbits,
                               jobs[j].needs_rebuild \/ force_rebuild)} :
          /\ Len(out.documents) <= MaxDocs
          /\ jobs' = [jobs EXCEPT ![j] =
                         IF out.error = "none" THEN [out.job_impl EXCEPT !.needs_rebuild = FALSE]
                         ELSE out.job_impl]
          /\ documents' = out.documents
          /\ toolbits' = out.toolbits
          /\ last' = [call |-> name, job |-> j, force_rebuild |-> force_rebuild,
                      outcome |-> IF out.error = "none" THEN "ok" ELSE out.error,
                      built |-> out.built, before |-> <<jobs[j]>>, documents |-> documents]
    /\ UNCHANGED visualizerVars

\* Job.show (api.py, lines 134-148) and JobImpl.show (fc_impl.py, lines 193-195).
show(j, force_rebuild) ==
    /\ j \in 1..Len(jobs)
    /\ Call("show", j, force_rebuild, "none")

\* A to_gcode that never checks for the postprocessor.
to_gcode_Unchecked(j, force_rebuild) ==
    /\ j \in 1..Len(jobs)
    /\ Call("to_gcode", j, force_rebuild, "none")

\* Job.to_gcode (api.py, lines 150-162) and JobImpl.to_gcode (fc_impl.py,
\* lines 174-191): without a postprocessor ValueError is raised first.
to_gcode(j, force_rebuild) ==
    /\ j \in 1..Len(jobs)
    /\ Call("to_gcode", j, force_rebuild,
            IF jobs[j].post_processor = PyNone THEN "ValueError" ELSE "none")

\* Job.save_fcstd (api.py, lines 164-178) and JobImpl.save_fcstd (fc_impl.py,
\* lines 170-172).
save_fcstd(j, force_rebuild) ==
    /\ j \in 1..Len(jobs)
    /\ Call("save_fcstd", j, force_rebuild, "none")

NextJob ==
    \/ \E post_processor \in PostProcessors, coolant \in Coolants : Job(post_processor, coolant)
    \/ \E input \in OpInputs : add_op(Len(jobs), input)
    \/ \E j \in 1..MaxJobs, force_rebuild \in BOOLEAN : show(j, force_rebuild)
    \/ \E j \in 1..MaxJobs, force_rebuild \in BOOLEAN : to_gcode(j, force_rebuild)
    \/ \E j \in 1..MaxJobs, force_rebuild \in BOOLEAN : save_fcstd(j, force_rebuild)

\* The Job objects of one chain of calls: each operation is added to the
\* newest Job.
SpecJob == Init /\ [][NextJob]_vars

\* Jobs derived from any Job made so far, their operations dressed.
MaxDerived == 3

NextDerived ==
    \/ Job("grbl", PyNone)
    \/ \E j \in 1..MaxDerived, input \in DressedInputs :
          Len(jobs) < MaxDerived /\ add_op(j, input)
    \/ \E j \in 1..MaxDerived, force_rebuild \in BOOLEAN : show(j, force_rebuild)
    \/ \E j \in 1..MaxDerived, force_rebuild \in BOOLEAN : to_gcode(j, force_rebuild)
    \/ \E j \in 1..MaxDerived, force_rebuild \in BOOLEAN : save_fcstd(j, force_rebuild)

SpecDerived == Init /\ [][NextDerived]_vars


(***************************************************************************)
(* Properties.                                                             *)
(***************************************************************************)
Processed == Len(commands) > 0
Last == commands[Len(commands)]
Given(command, key) == command.Parameters[key] # Absent
Linear(x, y, z) ==
    [cls |-> "LinearVisualCommand", x |-> x, y |-> y, z |-> z,
     i |-> Absent, j |-> Absent, k |-> Absent, arc_plane |-> "none"]
Positions(vc) == [n \in 1..Len(vc) |-> Pos(vc[n])]

\* The last command was a G81 that gives X, Y, Z and R, met in R-plane retract mode.
C1_Case ==
    /\ Processed
    /\ Last.Name = "G81"
    /\ \A key \in {"x", "y", "z", "r"} : Given(Last, key)
    /\ before.canned_r

\* The records C1 expects of that G81, and the position after it.
C1_TwoStrokes ==
    LET p == Last.Parameters
    IN  /\ visual_commands = before.visual_commands \o
                               <<Linear(p.x, p.y, p.z), Linear(p.x, p.y, p.r)>>
        /\ <<params.x, params.y, params.z>> = <<p.x, p.y, p.r>>

\* C1 as stated: in R-plane retract mode every G81 with X, Y, Z, R (that is
\* processed without an exception) appends exactly the two Linear records
\* (X, Y, Z) and (X, Y, R) and leaves the position at (X, Y, R), in whatever
\* coordinate mode it is met.
C1_Original == (C1_Case /\ error = "none") => C1_TwoStrokes

\* C1, amended: in absolute mode and R-plane retract mode every G81 with X, Y,
\* Z, R appends exactly the two Linear records (X, Y, Z) and (X, Y, R) and
\* leaves the position at (X, Y, R); from (0, 0, 5) the list G99,
\* G81 X2 Y-2 Z-2 R3, G80 adds exactly the records (2, -2, -2) and (2, -2, 3).
C1_CannedRetractToR ==
    /\ (C1_Case /\ ~before.relative) => (error = "none" /\ C1_TwoStrokes)
    /\ (job = "canned cycle" /\ Len(commands) = 4) =>
          /\ error = "none"
          /\ Positions(visual_commands) = <<<<0, 0, 5>>, <<2, -2, -2>>, <<2, -2, 3>>>>
          /\ \A n \in 2..3 : visual_commands[n].cls = "LinearVisualCommand"

\* C1's case has happened: a G81 with X, Y, Z, R was processed in absolute
\* R-plane mode from a known height other than R.
C1_Witness ==
    /\ C1_Case
    /\ ~before.relative
    /\ pc = "tracking"
    /\ IsNum(before.params.z)
    /\ before.params.z # Last.Parameters.r

\* The first G81 of the run the last command belongs to: the first G81 after
\* the last G80 (or after the start of the list).
RunStart ==
    LET g80s == {n \in 1..Len(commands) : commands[n].Name = "G80"}
        from == IF g80s = {} THEN 0 ELSE CHOOSE n \in g80s : \A m \in g80s : m <= n
    IN  CHOOSE n \in (from + 1)..Len(commands) :
            /\ commands[n].Name = "G81"
            /\ \A m \in (from + 1)..(n - 1) : commands[m].Name # "G81"

\* The tracker as it was before command n of the list.
TrackerBefore(n) == Run(InitialTracker, SubSeq(commands, 1, n - 1))

\* The R a command carries: its own, else the last one given.
EffectiveR(t, command) ==
    IF Given(command, "r") THEN command.Parameters.r ELSE t.params.r

\* The return height C2 says the run captured at its first G81.
C2_Captured ==
    LET t == TrackerBefore(RunStart)
    IN  IF t.canned_r THEN EffectiveR(t, commands[RunStart]) ELSE t.params.z

C2_Case == Processed /\ Last.Name = "G81" /\ error = "none"
C2_RetractedTo == visual_commands[Len(visual_commands)].z

\* C2 as stated: every G81 of a run retracts to the height captured at the
\* first G81 of the run, the pre-cycle Z in G98 mode and the R parameter in
\* G99 mode.
C2_Original == C2_Case => C2_RetractedTo = C2_Captured

\* C2, amended: a G81 met in G98 mode retracts to the pre-cycle Z captured at
\* the first G81 of its run when that one was met in G98 mode too (captured
\* once, and anew after a G80); when the run began in G99 mode nothing was
\* captured and it retracts to the height an earlier run left (None if none).
\* A G81 met in G99 mode retracts to its own R, the last R given when it has
\* none, not to the R of the first G81 of the run.
C2_ReturnHeight ==
    C2_Case =>
        /\ visual_commands # <<>>
        /\ before.canned_r => C2_RetractedTo = EffectiveR(before, Last)
        /\ (~before.canned_r /\ ~TrackerBefore(RunStart).canned_r) =>
              /\ C2_RetractedTo = TrackerBefore(RunStart).params.z
              /\ canned_z = C2_RetractedTo
        /\ (~before.canned_r /\ TrackerBefore(RunStart).canned_r) =>
              /\ C2_RetractedTo = TrackerBefore(RunStart).canned_z
              /\ canned_z = before.canned_z

\* C2's case has happened: a run of two G81 reused its height, a G80 ended
\* it, and the G81 after it captured another height.
C2_Witness ==
    /\ job = "drill run"
    /\ Len(commands) = 7
    /\ C2_Case
    /\ RunStart = 7
    /\ Positions(visual_commands)[5] = <<2, 0, 5>>
    /\ C2_RetractedTo = 3

\* The machine position a command list leaves, the start being the origin.
MoveTo(pos, command) ==
    [a \in Axes |-> IF Given(command, a) THEN command.Parameters[a] ELSE pos[a]]

\* The same moves written as offsets from the position before each.
RECURSIVE RelativeEncoding(_, _)
RelativeEncoding(path, pos) ==
    IF path = <<>> THEN <<>>
    ELSE LET command == Head(path)
             deltas == [key \in Keys |->
                          IF key \in Axes /\ Given(command, key)
                          THEN command.Parameters[key] - pos[key]
                          ELSE command.Parameters[key]]
         IN  <<Cmd(command.Name, deltas)>> \o
                 RelativeEncoding(Tail(path), MoveTo(pos, command))

Origin == [a \in Axes |-> 0]

\* C3: a path of G0/G1/G2/G3 moves written in relative mode (G91, then the
\* offsets) gives the same records, and the same outcome, as the path written
\* in absolute mode.
C3_RelativeEqualsAbsolute ==
    (/\ pc = "tracking"
     /\ job = "free"
     /\ Processed
     /\ \A n \in 1..Len(commands) : commands[n].Name \in MotionNames) =>
        LET rel == Run(InitialTracker,
                       <<Cmd("G91", NoParams)>> \o RelativeEncoding(commands, Origin))
        IN  /\ rel.error = error
            /\ rel.visual_commands = visual_commands


\* C4: a command list replayed in a later call, other calls in between or not,
\* gives the records and the outcome of its first run, and every call starts
\* from the same fresh position, mode, plane and canned-cycle state.
C4_ReplayIdentical ==
    /\ (pc = "tracking" /\ commands = <<>>) => Tracker = InitialTracker
    /\ (log.set /\ pc \in {"done", "failed"} /\ commands = log.commands) =>
          (visual_commands = log.visual_commands /\ error = log.error)

\* C4's case has happened: the second call after the remembered one ran the
\* remembered list again and produced records.
C4_Witness ==
    /\ log.set
    /\ log.calls = 2
    /\ pc = "done"
    /\ commands = log.commands
    /\ Len(visual_commands) >= 2

\* The offsets _to_shape requires in a plane.
RequiredOffsets(arc_plane) ==
    CASE arc_plane = "XY" -> {"i", "j"}
      [] arc_plane = "XZ" -> {"i", "k"}
      [] arc_plane = "YZ" -> {"j", "k"}

\* Command n is a G2/G3 whose own parameters lack an offset the plane active
\* at that point requires.
LacksOffset(n) ==
    /\ commands[n].Name \in {"G2", "G3"}
    /\ \E key \in RequiredOffsets(TrackerBefore(n).params.arc_plane) :
          ~Given(commands[n], key)

\* Command n appended a record that has a predecessor, so that the assemblers
\* reconstruct it.
Reconstructed(n) ==
    /\ Len(TrackerBefore(n).visual_commands) >= 1
    /\ Len(TrackerBefore(n + 1).visual_commands) > Len(TrackerBefore(n).visual_commands)

\* C5: a visualization does not end without an error when a G2/G3 command
\* that lacks a required offset of its own produced a record that is
\* reconstructed; the missing offset is not taken from an earlier command.
C5_MissingOffsetFails ==
    pc = "done" => \A n \in 1..Len(commands) : ~(LacksOffset(n) /\ Reconstructed(n))

KnownNames ==
    MotionNames \cup {"G17", "G18", "G19", "G80", "G81", "G90", "G91", "G98", "G99"}

\* C6: a command whose mnemonic is none of the thirteen known ones raises no
\* error, appends no record and leaves position, mode, plane and canned-cycle
\* state as they were, whatever its parameters and the current mode.
C6_IgnoredUnchanged ==
    (Processed /\ Last.Name \notin KnownNames) => Tracker = before

\* The in-plane offsets of an arc as a vector, the third component 0.
InPlaneOffsets(c) ==
    <<IF "i" \in RequiredOffsets(c.arc_plane) THEN c.i ELSE 0,
      IF "j" \in RequiredOffsets(c.arc_plane) THEN c.j ELSE 0,
      IF "k" \in RequiredOffsets(c.arc_plane) THEN c.k ELSE 0>>

Plus(a, b) == <<a[1] + b[1], a[2] + b[2], a[3] + b[3]>>
Norm2(v) == v[1] * v[1] + v[2] * v[2] + v[3] * v[3]

\* Record n is an arc at the position of its predecessor with the offsets of
\* its plane present.
C7_Case(n) ==
    /\ visual_commands[n].cls \in ArcClasses
    /\ VcEq(visual_commands[n], visual_commands[n - 1])
    /\ ~OffsetsMissing(visual_commands[n])

\* Both paths give the full circle around start + offsets for record n.
C7_Circle(n) ==
    LET self == visual_commands[n]
        start == visual_commands[n - 1]
        ais == to_ais(self, start)
        edge == to_edge(self, start)
    IN  /\ ais.error = "none" /\ edge.error = "none"
        /\ ais.geom = "Geom_Circle" /\ ais.wrapper = "AIS_Circle"
        /\ edge.geom = "Geom_Circle" /\ edge.wrapper = "TopoDS_Edge"
        /\ ais.center = Plus(Pos(start), InPlaneOffsets(self))
        /\ edge.center = ais.center
        /\ ais.radius2 = Norm2(InPlaneOffsets(self))
        /\ edge.radius2 = ais.radius2

\* C7 as stated: an arc record at the position of its predecessor, its
\* required offsets present, is reconstructed as a full circle in both paths.
C7_Original == \A n \in 2..Len(visual_commands) : C7_Case(n) => C7_Circle(n)

\* C7, amended: an arc record at the (numeric) position of its predecessor
\* whose required offsets are present and not both zero is reconstructed, in
\* both paths, as the full circle with centre start + offsets and radius the
\* length of the offset vector.
C7_FullCircle ==
    \A n \in 2..Len(visual_commands) :
        (/\ C7_Case(n)
         /\ InPlaneOffsets(visual_commands[n]) # Zero3
         /\ IsNum(visual_commands[n].z)) => C7_Circle(n)

\* C7's case has happened: such an arc record is in the list.
C7_Witness ==
    \E n \in 2..Len(visual_commands) :
        /\ C7_Case(n)
        /\ InPlaneOffsets(visual_commands[n]) # Zero3
        /\ IsNum(visual_commands[n].z)

\* Both paths give nothing for record n.
C8_Nothing(n) ==
    /\ to_ais(visual_commands[n], visual_commands[n - 1]) = NoShape
    /\ to_edge(visual_commands[n], visual_commands[n - 1]) = NoShape

\* Neither path gives a shape for record n.
C8_NoShape(n) ==
    /\ to_ais(visual_commands[n], visual_commands[n - 1]).geom = "None"
    /\ to_edge(visual_commands[n], visual_commands[n - 1]).geom = "None"

C8_Degenerate(n) == VcEq(visual_commands[n], visual_commands[n - 1])

RECURSIVE EdgeCount(_)
EdgeCount(pairs) ==
    IF pairs = <<>> THEN 0 ELSE Len(Head(pairs).edges) + EdgeCount(Tail(pairs))

FlatEdge(n) ==
    LET e == to_edge(visual_commands[n], visual_commands[n - 1])
    IN  e.error = "none" /\ e.geom \notin {"None", "Helix"}

EdgeColor(n) == to_edge(visual_commands[n], visual_commands[n - 1]).color

C9_Scenario ==
    /\ job = "color bucketing"
    /\ Len(commands) = 3
    /\ pc = "done"
    /\ result.kind = "compounds"

\* C9: the curve of a rapid record and the curve of a feed record (G1 or flat
\* arc) go to different classes, and G0, G1, flat G2 bucket into two classes,
\* rapid with 1 curve and feed with 2.
C9_BucketedByClass ==
    /\ \A n, m \in 2..Len(visual_commands) :
          (/\ pc = "done" /\ result.kind = "compounds"
           /\ FlatEdge(n) /\ FlatEdge(m)
           /\ visual_commands[n].cls = "RapidVisualCommand"
           /\ visual_commands[m].cls # "RapidVisualCommand") => EdgeColor(n) # EdgeColor(m)
    /\ C9_Scenario =>
          /\ Len(result.compounds) = 2
          /\ {Len(result.compounds[n].edges) : n \in 1..2} = {1, 2}

\* C10: an arc record whose out-of-plane coordinate differs from its
\* predecessor's is tagged with the helix color, which is not the color of
\* flat feed moves, in the AIS path and in the edge path.
C10_HelixTagged ==
    \A n \in 2..Len(visual_commands) :
        LET self == visual_commands[n]
            start == visual_commands[n - 1]
        IN  (/\ self.cls \in ArcClasses
             /\ ~OffsetsMissing(self)
             /\ ~ArcTypeError(self, start)
             /\ Height(self, start) # 0) =>
                /\ to_ais(self, start).color = "green"
                /\ to_edge(self, start).color = "green"

\* Record n is an arc that _to_shape builds as a helix.
IsHelix(n) ==
    LET self == visual_commands[n]
        start == visual_commands[n - 1]
    IN  /\ self.cls \in ArcClasses
        /\ ~OffsetsMissing(self)
        /\ ~ArcTypeError(self, start)
        /\ Height(self, start) # 0

HelixOf(n) == to_shape(visual_commands[n], visual_commands[n - 1])

\* C11: two helices of arcs of the same direction in the same plane, one
\* climbing and one descending, have opposite handedness, and every helix
\* turns in projection onto the arc plane the way its arc does: clockwise
\* for a CW arc, counter-clockwise for a CCW arc.
C11_HelixHandedness ==
    \A n \in 2..Len(visual_commands) :
        IsHelix(n) =>
            /\ (u_stop(HelixOf(n))[1] < 0) = clockwise(visual_commands[n].cls)
            /\ \A m \in 2..Len(visual_commands) :
                  (/\ IsHelix(m)
                   /\ visual_commands[m].cls = visual_commands[n].cls
                   /\ visual_commands[m].arc_plane = visual_commands[n].arc_plane
                   /\ Sign(HelixOf(m).height) # Sign(HelixOf(n).height)) =>
                      HelixOf(m).lefthand # HelixOf(n).lefthand
\* Record n is an arc that _to_shape builds flat, as a circle or an arc of one.
IsFlat(self, start) ==
    /\ self.cls \in ArcClasses
    /\ ~OffsetsMissing(self)
    /\ ~ArcTypeError(self, start)
    /\ Height(self, start) = 0
    /\ to_shape(self, start).error = "none"

\* The offset the plane does not use, and the axes of the plane.
ThirdOffset(arc_plane) == CHOOSE key \in {"i", "j", "k"} : key \notin RequiredOffsets(arc_plane)
InPlaneAxes(arc_plane) ==
    CASE arc_plane = "XY" -> {"x", "y"} [] arc_plane = "XZ" -> {"x", "z"}
      [] arc_plane = "YZ" -> {"y", "z"}

\* The record with another third offset, or with its end moved in the plane.
Variations(self) ==
    {[self EXCEPT ![ThirdOffset(self.arc_plane)] = v] : v \in {NoneV, 0, 3}}
        \cup {[self EXCEPT ![a] = @ + d] : a \in InPlaneAxes(self.arc_plane), d \in {-1, 1}}

\* C12: the circle of a flat arc, in each of the three planes and in both
\* paths, has its centre at the start plus the two in-plane offsets (the
\* out-of-plane coordinate that of the start) and the sum of their squares as
\* squared radius; another end in the plane or another third offset gives
\* the same centre and radius; G2 X0 Y5 I0 J5 from (0,0,0) gives centre
\* (0,5,0) and radius 5.
C12_CentreAndRadius ==
    /\ \A n \in 2..Len(visual_commands) :
          LET self == visual_commands[n]
              start == visual_commands[n - 1]
              centre == Plus(Pos(start), InPlaneOffsets(self))
              radius2 == Norm2(InPlaneOffsets(self))
          IN  IsFlat(self, start) =>
                /\ \A s \in {to_shape(self, start), to_ais(self, start), to_edge(self, start)} :
                      s.center = centre /\ s.radius2 = radius2
                /\ \A v \in Variations(self) :
                      IsFlat(v, start) =>
                          /\ to_shape(v, start).center = centre
                          /\ to_shape(v, start).radius2 = radius2
    /\ (job = "arc centre" /\ Len(commands) >= 2) =>
          /\ IsFlat(visual_commands[2], visual_commands[1])
          /\ to_shape(visual_commands[2], visual_commands[1]).center = <<0, 5, 0>>
          /\ to_shape(visual_commands[2], visual_commands[1]).radius2 = 5 * 5

\* C12's case has happened: flat arcs in the XY, the XZ and the YZ plane were
\* recorded, the third offset of an earlier arc still in the record.
C12_Witness ==
    /\ job = "arc centre"
    /\ Len(visual_commands) = 4
    /\ \A n \in 2..4 : IsFlat(visual_commands[n], visual_commands[n - 1])
    /\ [n \in 2..4 |-> visual_commands[n].arc_plane] = [n \in 2..4 |-> <<"XY", "XZ", "YZ">>[n - 1]]
    /\ visual_commands[3].j = 5
    /\ to_shape(visual_commands[4], visual_commands[3]).center = <<2, 5, 1>>
\* C13: every record appended holds a number for x, for y and for z.
C13_RecordsResolved ==
    \A n \in 1..Len(visual_commands) :
        \A a \in Axes : IsNum(visual_commands[n][a])
\* C14: with fewer than two records visual_commands_to_ais returns None and
\* visual_commands_to_edges returns the empty list; neither raises, and no
\* pair is reconstructed.
C14_EmptyResult ==
    Len(visual_commands) < 2 =>
        /\ visual_commands_to_ais(visual_commands) = NoneResult
        /\ visual_commands_to_edges(visual_commands) = CompoundsResult(<<>>)
        /\ (pc = "done" /\ host \in {"no show_object", "cq_editor"}) => result = NoneResult
        /\ (pc = "done" /\ host \in {"ocp_vscode", "other"}) => result = CompoundsResult(<<>>)
        /\ pc = "failed" => error # "none"

\* C14's case has happened: a job that left a single record was assembled
\* into edge compounds.
C14_Witness ==
    /\ Len(visual_commands) = 1
    /\ pc = "done"
    /\ host = "ocp_vscode"
    /\ result = CompoundsResult(<<>>)
\* The sequence holds the element.
Holds(seq, e) == \E n \in 1..Len(seq) : seq[n] = e

\* C15: a visualization that yields fewer than two records ends, on every
\* kind of host, with an empty result, without a call of show_object, and
\* with the warning of an empty job logged.
C15_EmptyJobWarned ==
    (/\ pc = "done"
     /\ Len(visual_commands) < 2
     /\ host \in {"cq_editor", "ocp_vscode", "other"}) =>
        /\ result \in {NoneResult, CompoundsResult(<<>>)}
        /\ shown = <<>>
        /\ Holds(warnings, "Empty job")
\* C16: with a show_object from an unrecognized module visualize_fc_job logs
\* the warning of an unsupported host and takes the edge path: it returns what
\* visual_commands_to_edges gives (raising only what that raises) and calls
\* show_object once for each (color, compound) pair, without a color option.
C16_UnknownHostDegrades ==
    (pc \in {"done", "failed"} /\ error = "none" /\ host = "other") =>
        /\ Holds(warnings, "Unsupported show_object source module")
        /\ result = visual_commands_to_edges(visual_commands)
        /\ (pc = "failed") = (result.kind = "raised")
        /\ pc = "done" =>
              /\ result.kind = "compounds"
              /\ Len(shown) = Len(result.compounds)
              /\ \A n \in 1..Len(shown) :
                    shown[n] = ShowCall(<<result.compounds[n]>>, "none", Zero3)

\* C16's case has happened: a compound was shown on an unrecognized host.
C16_Witness ==
    /\ pc = "done"
    /\ host = "other"
    /\ Len(result.compounds) >= 1
    /\ Len(shown) >= 1

(***************************************************************************)
(* Jobs: the document's life, the postprocessor check, parameters, labels. *)
(***************************************************************************)
\* The job a call was made on, as it was before the call.
Before == last.before[1]
Called == last.call \in {"show", "to_gcode", "save_fcstd"}

\* The operations of a job as a fresh document would hold them.
Executed(job_impl) ==
    [k \in 1..Len(job_impl.ops) |->
        execute(job_impl.ops[k], job_impl.ops, job_impl.setup_sheet_params)]

\* C17: for one Job the first call of show, to_gcode or save_fcstd builds
\* the document; a later call reuses it without rebuilding, unless
\* force_rebuild is passed, and then the existing document is closed and a
\* new one is built from the job's operations.  (A to_gcode without a
\* postprocessor is left to C18.)
C17_BuildOnceUnlessForced ==
    (Called /\ last.outcome # "ValueError") =>
        LET now == jobs[last.job]
        IN  /\ last.outcome = "ok"
            /\ now.doc # 0 /\ documents[now.doc].open
            /\ documents[now.doc].ops = Executed(now)
            /\ Before.doc = 0 => last.built
            /\ (Before.doc # 0 /\ ~last.force_rebuild) =>
                    ~last.built /\ now.doc = Before.doc /\ documents = last.documents
            /\ (Before.doc # 0 /\ last.force_rebuild) =>
                    last.built /\ now.doc # Before.doc /\ ~documents[Before.doc].open

\* C18: to_gcode on a Job without a postprocessor raises ValueError before
\* any document is built or closed, leaving the job's document, operations
\* and rebuild flag as they were; and a show that follows on that job
\* succeeds, building the document if the job had none.
C18_NoPostprocessor ==
    [][/\ (last'.call = "to_gcode" /\ last'.before[1].post_processor = PyNone) =>
            /\ last'.outcome = "ValueError" /\ ~last'.built
            /\ jobs' = jobs /\ documents' = documents
       /\ (/\ last.call = "to_gcode" /\ last.outcome = "ValueError"
           /\ last'.call = "show" /\ last'.job = last.job
           /\ (jobs[last.job].doc = 0 \/ ~last'.force_rebuild)) =>
            /\ last'.outcome = "ok"
            /\ last'.built = (jobs[last.job].doc = 0)
            /\ jobs'[last.job].doc # 0
            /\ documents'[jobs'[last.job].doc].open
            /\ documents'[jobs'[last.job].doc].ops = Executed(jobs[last.job])]_vars

C18_Witness ==
    /\ last.call = "to_gcode" /\ last.outcome = "ValueError"
    /\ Before.doc = 0 /\ Before.needs_rebuild /\ Len(Before.ops) = 2
    /\ jobs[last.job] = Before

\* The FreeCAD property names map_params gives for the arguments given, and
\* the value it gives each.
Names(mapping, given) == {mapping[k].key : k \in {k \in DOMAIN given : given[k] # PyNone}}
Values(mapping, given) ==
    {<<mapping[k].key, given[k]>> : k \in {k \in DOMAIN given : given[k] # PyNone}}

\* C19: an operation's coolant is set on it exactly when the value given is
\* not None, the string "None" included, and then it is the coolant in
\* effect whatever the job's; when it is None the job's coolant is in
\* effect.  map_params drops exactly the parameters given as None and maps
\* every other one to its FreeCAD property name.
C19_CoolantAndParams ==
    \A j \in 1..Len(jobs) :
        /\ {pair[1] : pair \in jobs[j].setup_sheet_params} =
               Names(setup_sheet_param_mapping, jobs[j].given)
        /\ \A k \in 1..Len(jobs[j].ops) :
              LET op == jobs[j].ops[k]
              IN  /\ {pair[1] : pair \in op.params} = Names(Op_param_mapping, op.given)
                  /\ {<<pair[1], pair[2].value>> : pair \in op.params} =
                         Values(Op_param_mapping, op.given)
                  /\ jobs[j].doc # 0 =>
                        LET done == documents[jobs[j].doc].ops[k]
                        IN  /\ ("CoolantMode" \in done.set) = (op.given.coolant # PyNone)
                            /\ done.CoolantMode =
                                   IF op.given.coolant # PyNone THEN op.given.coolant
                                   ELSE IF jobs[j].given.coolant # PyNone
                                        THEN jobs[j].given.coolant ELSE "None"

C19_Witness ==
    \E j \in 1..Len(jobs) :
        /\ jobs[j].doc # 0 /\ jobs[j].given.coolant = "Flood"
        /\ \E k, m \in 1..Len(jobs[j].ops) :
              /\ jobs[j].ops[k].given.coolant = "None"
              /\ jobs[j].ops[k].given.step_down = ""
              /\ documents[jobs[j].doc].ops[k].CoolantMode = "None"
              /\ jobs[j].ops[m].given.coolant = PyNone
              /\ documents[jobs[j].doc].ops[m].CoolantMode = "Flood"

Unnamed(ops) == {k \in 1..Len(ops) : ops[k].name = PyNone}
IsPrefix(ops, longer) == Len(ops) <= Len(longer) /\ SubSeq(longer, 1, Len(ops)) = ops

\* C20: an unnamed operation of a job is labelled <ClassName>_<k>, k its
\* 1-based position among the job's operations of its class; the labels of
\* a job's unnamed operations are pairwise distinct; and an operation has
\* the same label in a job made by appending further operations.
C20_Labels ==
    \A j \in 1..Len(jobs) :
        LET ops == jobs[j].ops
        IN  /\ \A k \in Unnamed(ops) :
                  /\ label(ops[k], ops) =
                        ops[k].cls \o "_" \o
                        ToString(Cardinality({m \in 1..k : ops[m].cls = ops[k].cls}))
                  /\ jobs[j].doc # 0 =>
                        documents[jobs[j].doc].ops[k].label = label(ops[k], ops)
                  /\ \A m \in Unnamed(ops) :
                        m # k => label(ops[m], ops) # label(ops[k], ops)
                  /\ \A i \in 1..Len(jobs) :
                        IsPrefix(ops, jobs[i].ops) =>
                            label(ops[k], jobs[i].ops) = label(ops[k], ops)

C20_Witness ==
    \E j, i \in 1..Len(jobs) :
        /\ Len(jobs[j].ops) = 2 /\ Len(jobs[i].ops) = 3
        /\ IsPrefix(jobs[j].ops, jobs[i].ops)
        /\ jobs[i].doc # 0
        /\ {documents[jobs[i].doc].ops[k].label : k \in 1..3} =
               {"DrillOp_1", "ProfileOp_1", "ProfileOp_2"}
        /\ documents[jobs[i].doc].ops[3].label = "ProfileOp_2"
        /\ documents[jobs[i].doc].ops[2].label = "DrillOp_1"
(***************************************************************************)
(* The tracker, command by command.                                        *)
(***************************************************************************)
\* The last command was a motion command and left a record.
Emitted ==
    /\ Processed /\ error = "none"
    /\ Len(visual_commands) = Len(before.visual_commands) + 1
MotionEmitted == Emitted /\ Last.Name \in MotionNames
LastRecord == visual_commands[Len(visual_commands)]

\* C22: the record of a G0/G1/G2/G3 command has on each axis the command's
\* value in absolute mode, the last position plus the command's value in
\* relative mode, and the last position when the command omits the axis;
\* the I, J, K and R of the command go through unchanged in both modes.
C22_RecordCoordinates ==
    MotionEmitted =>
        /\ \A a \in Axes :
              LastRecord[a] = IF ~Given(Last, a) THEN before.params[a]
                          ELSE IF before.relative
                               THEN before.params[a] + Last.Parameters[a]
                               ELSE Last.Parameters[a]
        /\ \A key \in {"i", "j", "k", "r"} :
              Given(Last, key) =>
                  /\ params[key] = Last.Parameters[key]
                  /\ (LastRecord.cls \in ArcClasses /\ key # "r") =>
                        LastRecord[key] = Last.Parameters[key]

C22_Witness ==
    /\ MotionEmitted /\ before.relative /\ Last.Name = "G2"
    /\ Given(Last, "x") /\ Given(Last, "y") /\ ~Given(Last, "z")
    /\ Given(Last, "i") /\ Given(Last, "r")
    /\ before.params.x # 0 /\ Last.Parameters.x # 0
    /\ LastRecord.x = 3 /\ LastRecord.y = 1 /\ LastRecord.z = 3 /\ LastRecord.i = 1 /\ params.r = 4
PlaneNames == {"G17", "G18", "G19"}
PlaneOf(name) == CASE name = "G17" -> "XY" [] name = "G18" -> "XZ" [] name = "G19" -> "YZ"

\* The plane selected by the most recent plane command of a list, XY when
\* the list has none.
RECURSIVE RecentPlane(_)
RecentPlane(cmds) ==
    IF cmds = <<>> THEN "XY"
    ELSE IF cmds[Len(cmds)].Name \in PlaneNames THEN PlaneOf(cmds[Len(cmds)].Name)
    ELSE RecentPlane(SubSeq(cmds, 1, Len(cmds) - 1))

\* C23: an arc record carries the plane selected by the most recent
\* G17/G18/G19 before it, XY when there is none; a plane command emits no
\* record and leaves the position as it was; and no command changes a
\* record already emitted.
C23_ArcPlane ==
    (Processed /\ error = "none") =>
        /\ SubSeq(visual_commands, 1, Len(before.visual_commands)) = before.visual_commands
        /\ \A n \in 1..Len(visual_commands) :
              visual_commands[n].cls \in ArcClasses =>
                  visual_commands[n].arc_plane \in {"XY", "XZ", "YZ"}
        /\ (MotionEmitted /\ LastRecord.cls \in ArcClasses) =>
              LastRecord.arc_plane = RecentPlane(SubSeq(commands, 1, Len(commands) - 1))
        /\ Last.Name \in PlaneNames =>
              /\ visual_commands = before.visual_commands
              /\ \A key \in Keys : params[key] = before.params[key]
              /\ params.arc_plane = PlaneOf(Last.Name)

C23_Witness ==
    /\ MotionEmitted /\ LastRecord.cls \in ArcClasses /\ LastRecord.arc_plane = "YZ"
    /\ \E n, m \in 1..Len(visual_commands) :
          /\ n < m
          /\ visual_commands[n].cls \in ArcClasses /\ visual_commands[n].arc_plane = "XY"
          /\ visual_commands[m].cls \in ArcClasses /\ visual_commands[m].arc_plane = "XZ"
(***************************************************************************)
(* Reconstruction of arcs.                                                 *)
(***************************************************************************)
\* The axis normal to a plane, and the arc records that follow a record.
OutOfPlane(arc_plane) ==
    CASE arc_plane = "XY" -> "z" [] arc_plane = "XZ" -> "y" [] arc_plane = "YZ" -> "x"
ArcRecords == {n \in 2..Len(visual_commands) : visual_commands[n].cls \in ArcClasses}
Climb(n) ==
    visual_commands[n][OutOfPlane(visual_commands[n].arc_plane)]
        - visual_commands[n - 1][OutOfPlane(visual_commands[n].arc_plane)]

\* C24: where the reconstruction of an arc record raises nothing, it gives
\* a helix exactly when the record's out-of-plane coordinate differs from
\* its predecessor's, the height being the record's coordinate minus the
\* predecessor's; when they are equal it gives a flat arc or a full circle.
C24_HelixWhenClimbing ==
    \A n \in ArcRecords :
        HelixOf(n).error = "none" =>
            /\ (HelixOf(n).geom = "Helix") = (Climb(n) # 0)
            /\ HelixOf(n).geom = "Helix" => HelixOf(n).height = Climb(n)
            /\ Climb(n) = 0 => HelixOf(n).geom \in {"ArcOfCircle", "Geom_Circle"}

C24_Witness ==
    \E n, m \in ArcRecords :
        /\ visual_commands[n].arc_plane = "XZ" /\ visual_commands[m].arc_plane = "XZ"
        /\ HelixOf(n).geom = "Helix" /\ HelixOf(n).height = -1
        /\ visual_commands[n].z # visual_commands[n - 1].z
        /\ HelixOf(m).geom = "ArcOfCircle"
        /\ visual_commands[m].z # visual_commands[m - 1].z
Minus(a, b) == <<a[1] - b[1], a[2] - b[2], a[3] - b[3]>>
Dot(a, b) == a[1] * b[1] + a[2] * b[2] + a[3] * b[3]

\* The arc records rebuilt as a flat arc or circle.
FlatArcs == {n \in ArcRecords : HelixOf(n).geom \in {"ArcOfCircle", "Geom_Circle"}}

\* The side of the start-to-centre line the end lies on, seen from the
\* positive plane normal: positive to the left, negative to the right.
Turn(n) ==
    Dot(Crossed(Minus(HelixOf(n).start, HelixOf(n).center),
                Minus(HelixOf(n).end, HelixOf(n).center)),
        PlaneNormal(visual_commands[n].arc_plane))

\* The sense of the travel seen from the positive plane normal: the arc is
\* cut from start to end in the positive sense about the circle's axis
\* (GC_MakeArcOfCircle with Sense = True, line 204).
Travel(n) ==
    IF HelixOf(n).axis = PlaneNormal(visual_commands[n].arc_plane) THEN "counter-clockwise"
    ELSE IF HelixOf(n).axis = Neg(PlaneNormal(visual_commands[n].arc_plane)) THEN "clockwise"
    ELSE "oblique"

\* C25: the circle of a flat arc with a non-zero in-plane offset has, in
\* every plane, its axis opposite to the plane normal for a CW record and
\* equal to it for a CCW record, so the travel from start to end is
\* clockwise resp. counter-clockwise seen from the positive plane normal.
C25_ArcDirection ==
    \A n \in ArcRecords :
        (/\ ~OffsetsMissing(visual_commands[n])
         /\ ~ArcTypeError(visual_commands[n], visual_commands[n - 1])
         /\ visual_commands[n].z # NoneV
         /\ Climb(n) = 0
         /\ FlatCv(visual_commands[n]) # Zero3) =>
            /\ n \in FlatArcs
            /\ HelixOf(n).axis =
                  IF visual_commands[n].cls = "CWArcVisualCommand"
                  THEN Neg(PlaneNormal(visual_commands[n].arc_plane))
                  ELSE PlaneNormal(visual_commands[n].arc_plane)
            /\ Travel(n) =
                  IF visual_commands[n].cls = "CWArcVisualCommand"
                  THEN "clockwise" ELSE "counter-clockwise"

\* A job with a CW arc going the long way round, a CW arc going the short
\* way, and the same two for CCW.
C25_Witness ==
    /\ \E n, m \in FlatArcs :
          /\ visual_commands[n].cls = "CWArcVisualCommand" /\ Turn(n) > 0
          /\ visual_commands[m].cls = "CWArcVisualCommand" /\ Turn(m) < 0
    /\ \E n, m \in FlatArcs :
          /\ visual_commands[n].cls = "CCWArcVisualCommand" /\ Turn(n) > 0
          /\ visual_commands[m].cls = "CCWArcVisualCommand" /\ Turn(m) < 0
(***************************************************************************)
(* Coincidence of start and end.                                           *)
(***************************************************************************)
\* A position with its out-of-plane coordinate put to 0.
InPlane(pos, arc_plane) ==
    CASE arc_plane = "XY" -> <<pos[1], pos[2], 0>>
      [] arc_plane = "XZ" -> <<pos[1], 0, pos[3]>>
      [] arc_plane = "YZ" -> <<0, pos[2], pos[3]>>

\* Record n and its predecessor are closer than the tolerance.
Coincide(n) == IsEqual(Pos(visual_commands[n - 1]), Pos(visual_commands[n]))
CoincideInPlane(n) ==
    IsEqual(InPlane(Pos(visual_commands[n - 1]), visual_commands[n].arc_plane),
            InPlane(Pos(visual_commands[n]), visual_commands[n].arc_plane))

\* C26: every test of start against end uses the tolerance: a rapid or
\* linear segment between two positions closer than the tolerance is
\* skipped, a flat arc between two such positions is a full circle, and a
\* helix whose start and end are closer than the tolerance in the plane gets
\* the pitch of a full turn.
C26_ToleranceEverywhere ==
    \A n \in 2..Len(visual_commands) :
        (visual_commands[n].z # NoneV /\ visual_commands[n - 1].z # NoneV) =>
            /\ (visual_commands[n].cls \in LinearClasses /\ Coincide(n)) =>
                  /\ to_edge(visual_commands[n], visual_commands[n - 1]).geom = "None"
                  /\ to_ais(visual_commands[n], visual_commands[n - 1]).geom = "None"
            /\ (n \in FlatArcs /\ Coincide(n)) => HelixOf(n).geom = "Geom_Circle"
            /\ (n \in ArcRecords /\ HelixOf(n).geom = "Helix" /\ CoincideInPlane(n)) =>
                  HelixOf(n).pitch2 = 2 * Abs(HelixOf(n).height)
(***************************************************************************)
(* Motion before the first Z.                                              *)
(***************************************************************************)
NoZSoFar == \A n \in 1..Len(commands) : ~Given(commands[n], "z")

\* C29: a G0/G1/G2/G3 command processed in absolute mode while no command
\* so far has given a Z emits no record and raises no error, and its X, Y
\* and other parameters are the carried values the next command starts from.
C29_NoRecordBeforeZ ==
    (Processed /\ Last.Name \in MotionNames /\ ~before.relative /\ NoZSoFar) =>
        /\ error = "none" /\ pc # "failed"
        /\ visual_commands = before.visual_commands
        /\ \A key \in Keys :
              params[key] = IF Given(Last, key) THEN Last.Parameters[key]
                            ELSE before.params[key]

\* A move in X before any Z left no record, and the record of the move in Z
\* that followed starts from its X.
C29_Witness ==
    /\ Len(commands) = 2 /\ error = "none"
    /\ commands[1].Name \in MotionNames /\ commands[1].Parameters.x = 1
    /\ ~Given(commands[1], "z") /\ before.visual_commands = <<>>
    /\ before.params.x = 1
    /\ Last.Name \in MotionNames /\ Given(Last, "z") /\ ~Given(Last, "x")
    /\ Len(visual_commands) = 1 /\ visual_commands[1].x = 1
(***************************************************************************)
(* Dressups, derived jobs, tool controllers.                               *)
(***************************************************************************)
Dressups(d) == {o \in 1..Len(documents[d].objects) : documents[d].objects[o].kind = "dressup"}
Wrapped(d) == {documents[d].objects[o].base : o \in Dressups(d)}
InGroup(d) == {documents[d].group[g] : g \in 1..Len(documents[d].group)}
\* The Path objects made for an operation, in the order of their making.
MadeFor(d, op) == {o \in 1..Len(documents[d].objects) : documents[d].objects[o].op = op}
\* The documents of finished builds, with the job built.
Finished == {j \in 1..Len(jobs) : jobs[j].doc # 0 /\ ~jobs[j].needs_rebuild}

\* C21: the first dressup of an operation wraps the operation and each
\* further one wraps the dressup before it; a wrapped object is in no group
\* any more, so that of the objects made for an operation the job's group
\* holds the outermost one alone; a finished build has made every dressup.
C21_DressupChain ==
    /\ \A d \in 1..Len(documents) :
          /\ \A o \in Dressups(d) :
                /\ documents[d].objects[o].base = o - 1
                /\ documents[d].objects[o - 1].op = documents[d].objects[o].op
                /\ documents[d].objects[o - 1].kind = "op" =>
                      \A m \in MadeFor(d, documents[d].objects[o].op) : m >= o - 1
          /\ Wrapped(d) \cap InGroup(d) = {}
          /\ \A o \in 1..Len(documents[d].objects) :
                (o \in InGroup(d)) = (o \notin Wrapped(d))
          /\ Len(documents[d].group) = Cardinality(InGroup(d))
    /\ \A j \in Finished :
          \A k \in 1..Len(jobs[j].ops) :
              /\ Cardinality(MadeFor(jobs[j].doc, jobs[j].ops[k].id))
                    = Len(jobs[j].ops[k].dressups) + 1
              /\ Cardinality(MadeFor(jobs[j].doc, jobs[j].ops[k].id) \cap InGroup(jobs[j].doc)) = 1

C21_Witness ==
    \E j \in Finished :
        /\ Len(jobs[j].ops) = 2
        /\ Len(jobs[j].ops[1].dressups) = 1 /\ Len(jobs[j].ops[2].dressups) = 2
        /\ Len(documents[jobs[j].doc].objects) = 5
        /\ documents[jobs[j].doc].group = <<2, 5>>
        /\ documents[jobs[j].doc].objects[5].name = "DressupTab"
        /\ documents[jobs[j].doc].objects[5].base = 4
        /\ documents[jobs[j].doc].objects[4].name = "DressupDogbone"
        /\ documents[jobs[j].doc].objects[4].base = 3
        /\ documents[jobs[j].doc].objects[3].name = "PocketOp_1"

C28_ControllerOfThisBuild ==
    \A d \in 1..Len(documents) :
        \A k \in 1..Len(documents[d].controllers) :
            /\ documents[d].controllers[k].doc = d
            /\ documents[d].controllers[k] \in documents[d].registered

\* C30: every parameter given to a dressup is set under its FreeCAD name
\* on the dressup object before the dressup is executed, and no build fails
\* on account of a dressup's parameters.
C30_DressupParams ==
    /\ \A d \in 1..Len(documents) : \A o \in Dressups(d) :
          /\ documents[d].objects[o].executed
          /\ documents[d].objects[o].set =
                Names(documents[d].objects[o].dressup[1].mapping,
                      documents[d].objects[o].dressup[1].given)
    /\ (Called /\ last.built) => last.outcome = "ok"
====
